---- MODULE Spec2Model ----
(***************************************************************************)
(* Transaction extraction engine of Finance_Transcation_Extractor.         *)
(*                                                                         *)
(* A text is a sequence of characters (one-character strings; the rupee    *)
(* sign and the arrow are the strings "rupee" and "arrow").  The regular   *)
(* expressions of the source are written as syntax trees and matched by    *)
(* Ends/Exec, which return what a backtracking matcher returns: the        *)
(* leftmost match, and among the matches at one start the first one in     *)
(* priority order (greedy: longest first, lazy: shortest first,            *)
(* alternatives left to right).  Positions are 0-based as in JavaScript.   *)
(***************************************************************************)
EXTENDS Integers, Sequences, FiniteSets, TLC

\* ---------------------------------------------------------------- characters
Digit == {"0", "1", "2", "3", "4", "5", "6", "7", "8", "9"}
LowerSeq == <<"a","b","c","d","e","f","g","h","i","j","k","l","m",
              "n","o","p","q","r","s","t","u","v","w","x","y","z">>
UpperSeq == <<"A","B","C","D","E","F","G","H","I","J","K","L","M",
              "N","O","P","Q","R","S","T","U","V","W","X","Y","Z">>
Letter == {LowerSeq[i] : i \in 1..26} \cup {UpperSeq[i] : i \in 1..26}
Word == Digit \cup Letter \cup {"_"}
Space == {" ", "\n", "\r", "\t"}
AnyChar ==
  Word \cup Space
    \cup {":", "/", "-", ".", ",", "|", "*", "$", "#", "+", "=", "rupee", "arrow"}
Dot == AnyChar \ {"\n", "\r"}

\* the characters a letter stands for under the i flag
CaseSet(c) ==
  IF \E i \in 1..26 : c = LowerSeq[i] \/ c = UpperSeq[i]
  THEN LET i == CHOOSE j \in 1..26 : c = LowerSeq[j] \/ c = UpperSeq[j]
       IN {LowerSeq[i], UpperSeq[i]}
  ELSE {c}
ClassI(S) == UNION {CaseSet(c) : c \in S}
toLowerCase(c) ==
  IF \E i \in 1..26 : c = UpperSeq[i]
  THEN LowerSeq[CHOOSE j \in 1..26 : c = UpperSeq[j]]
  ELSE c

\* ------------------------------------------------------ regular expressions
\* one node shape for every construct: k is the kind, s a character set,
\* a the sub-expressions, lo..hi the repetition bounds (hi = -1: no bound),
\* g greedy, n the capture group number
Node(k, s, a, lo, hi, g, n) ==
  [k |-> k, s |-> s, a |-> a, lo |-> lo, hi |-> hi, g |-> g, n |-> n]
Ch(S) == Node("cr", S, <<>>, 1, 1, TRUE, 0)              \* [S]
Opt(S) == Node("cr", S, <<>>, 0, 1, TRUE, 0)             \* [S]?
Star(S) == Node("cr", S, <<>>, 0, -1, TRUE, 0)           \* [S]*
Plus(S) == Node("cr", S, <<>>, 1, -1, TRUE, 0)           \* [S]+
StarLazy(S) == Node("cr", S, <<>>, 0, -1, FALSE, 0)      \* [S]*?
PlusLazy(S) == Node("cr", S, <<>>, 1, -1, FALSE, 0)      \* [S]+?
Times(S, lo, hi) == Node("cr", S, <<>>, lo, hi, TRUE, 0) \* [S]{lo,hi}
Cat(a) == Node("seq", {}, a, 0, 0, TRUE, 0)              \* r1 r2 ...
Alt(a) == Node("alt", {}, a, 0, 0, TRUE, 0)              \* r1|r2|...
Rep(r, lo, hi) == Node("rep", {}, <<r>>, lo, hi, TRUE, 0) \* (?:r){lo,hi}
Grp(n, r) == Node("grp", {}, <<r>>, 0, 0, TRUE, n)       \* capture group n
Lit(w) == Cat([i \in 1..Len(w) |-> Ch({w[i]})])          \* literal
LitI(w) == Cat([i \in 1..Len(w) |-> Ch(CaseSet(w[i]))])  \* literal, i flag

NoCaps == [n \in 1..5 |-> <<-1, -1>>]

\* ps without the states whose position occurs earlier in ps
RECURSIVE Fresh(_)
Fresh(ps) ==
  IF Len(ps) <= 1 THEN ps
  ELSE LET h  == Len(ps) \div 2
           l  == Fresh(SubSeq(ps, 1, h))
           lp == {l[i].p : i \in 1..Len(l)}
       IN l \o SelectSeq(Fresh(SubSeq(ps, h + 1, Len(ps))),
                         LAMBDA x : x.p \notin lp)

\* length of the run of characters of S at position p, at most cap (-1: any)
Run(t, S, p, cap) ==
  LET lim == IF cap < 0 \/ p + cap > Len(t) THEN Len(t) - p ELSE cap
  IN CHOOSE k \in 0..lim :
       /\ k = lim \/ t[p + k + 1] \notin S
       /\ \A j \in 1..k : t[p + j] \in S

\* Ends(t, r, st): the states (end position p, captures c) in which a match
\* of r that starts in state st can end, in the matcher's order of preference
RECURSIVE Ends(_, _, _), EndsSeq(_, _, _, _, _), EndsAll(_, _, _, _, _), EndsRep(_, _, _, _, _)
Ends(t, r, st) ==
  CASE r.k = "cr" ->
         LET k == Run(t, r.s, st.p, r.hi)
         IN IF k < r.lo THEN <<>>
            ELSE [j \in 1..(k - r.lo + 1) |->
                    [p |-> st.p + (IF r.g THEN k - j + 1 ELSE r.lo + j - 1),
                     c |-> st.c]]
    [] r.k = "seq" -> EndsSeq(t, r.a, 1, Len(r.a), <<st>>)
    [] r.k = "alt" ->
         Fresh(EndsAll(t, r.a, <<st>>, 1, Len(r.a)))
    [] r.k = "rep" -> EndsRep(t, r.a[1], r.lo, r.hi, st)
    [] r.k = "grp" ->
         LET es == Ends(t, r.a[1], st)
         IN [i \in 1..Len(es) |->
               [p |-> es[i].p,
                c |-> [es[i].c EXCEPT ![r.n] = <<st.p, es[i].p>>]]]
\* the ends of rs[i] from sts[j], for the pairs (i, j) numbered lo..hi with
\* the expressions rs in order and, for each of them, the states sts in order
EndsAll(t, rs, sts, lo, hi) ==
  IF lo > hi THEN <<>>
  ELSE IF lo = hi
  THEN Ends(t, rs[((lo - 1) \div Len(sts)) + 1], sts[((lo - 1) % Len(sts)) + 1])
  ELSE LET mid == (lo + hi) \div 2
       IN EndsAll(t, rs, sts, lo, mid) \o EndsAll(t, rs, sts, mid + 1, hi)
\* a[lo], ..., a[hi] matched one after the other from each state of sts
EndsSeq(t, a, lo, hi, sts) ==
  IF lo > hi \/ sts = <<>> THEN sts
  ELSE IF lo = hi
  THEN IF Len(sts) = 1 THEN Ends(t, a[lo], sts[1])
       ELSE Fresh(EndsAll(t, <<a[lo]>>, sts, 1, Len(sts)))
  ELSE LET mid == (lo + hi) \div 2
       IN EndsSeq(t, a, mid + 1, hi, EndsSeq(t, a, lo, mid, sts))
\* greedy repetition of r, between lo and hi times; an iteration that
\* consumes nothing is not repeated
EndsRep(t, r, lo, hi, st) ==
  LET once == Ends(t, r, st)
      more == SelectSeq(once, LAMBDA x : x.p > st.p)
      nhi  == IF hi < 0 THEN hi ELSE hi - 1
      rest(xs, l) == Fresh(EndsAll(t, <<Rep(r, l, nhi)>>, xs, 1, Len(xs)))
  IN IF lo > 0 THEN rest(once, lo - 1)
     ELSE IF hi = 0 THEN <<st>>
     ELSE Fresh(rest(more, 0) \o <<st>>)

NoMatch == [ok |-> FALSE, index |-> 0, end |-> 0, c |-> NoCaps]
\* the leftmost match of r that starts at a position of lo..hi
RECURSIVE Leftmost(_, _, _, _)
Leftmost(t, r, lo, hi) ==
  IF lo > hi THEN NoMatch
  ELSE IF lo = hi
  THEN LET es == Ends(t, r, [p |-> lo, c |-> NoCaps])
       IN IF es # <<>>
          THEN [ok |-> TRUE, index |-> lo, end |-> es[1].p, c |-> es[1].c]
          ELSE NoMatch
  ELSE LET mid == (lo + hi) \div 2
           l   == Leftmost(t, r, lo, mid)
       IN IF l.ok THEN l ELSE Leftmost(t, r, mid + 1, hi)
\* RegExp.prototype.exec from position from: the leftmost match at or after
\* from, as [ok, index, end, c]; ok = FALSE stands for null
Exec(t, r, from) == Leftmost(t, r, from, Len(t))
\* String.prototype.match without the g flag
Match(t, r) == Exec(t, r, 0)
\* the text of capture group n; <<>> when the group did not take part
Cap(t, m, n) ==
  IF m.c[n][1] < 0 THEN <<>> ELSE SubSeq(t, m.c[n][1] + 1, m.c[n][2])
Matched(t, m) == SubSeq(t, m.index + 1, m.end)


\* --------------------------------------------------------------- numbers
DigitVal(c) ==
  (CHOOSE i \in 1..10 : <<"0", "1", "2", "3", "4", "5", "6", "7", "8", "9">>[i] = c) - 1
RECURSIVE ToInt(_)
ToInt(ds) ==
  IF ds = <<>> THEN 0
  ELSE 10 * ToInt(SubSeq(ds, 1, Len(ds) - 1)) + DigitVal(ds[Len(ds)])
RECURSIVE Pow10(_)
Pow10(e) == IF e = 0 THEN 1 ELSE 10 * Pow10(e - 1)

\* str.replace(/,/g, "")
StripCommas(str) == SelectSeq(str, LAMBDA ch : ch # ",")

\* A number is NaN or (-1)^neg * m / 10^e.
NaN == [nan |-> TRUE, neg |-> FALSE, m |-> 0, e |-> 0]
Num(neg, m, e) == [nan |-> FALSE, neg |-> neg, m |-> m, e |-> e]
\* Number.parseFloat: the longest prefix that is a decimal literal
\* (sign, digits, point, digits), NaN when that prefix has no digit
parseFloat(str) ==
  LET sgn   == IF str # <<>> /\ str[1] \in {"-", "+"} THEN 1 ELSE 0
      ni    == Run(str, Digit, sgn, -1)
      dot   == sgn + ni < Len(str) /\ str[sgn + ni + 1] = "."
      nf    == IF dot THEN Run(str, Digit, sgn + ni + 1, -1) ELSE 0
      ip    == SubSeq(str, sgn + 1, sgn + ni)
      fp    == SubSeq(str, sgn + ni + 2, sgn + ni + 1 + nf)
  IN IF ni = 0 /\ nf = 0 THEN NaN
     ELSE Num(sgn = 1 /\ str[1] = "-", ToInt(ip \o fp), nf)
\* Math.abs
abs(x) == [x EXCEPT !.neg = FALSE]
isNaN(x) == x.nan
\* x < y and x > y for numbers x and a non-negative y = ym / 10^ye;
\* every comparison with NaN is false
Less(x, ym, ye) ==
  /\ ~x.nan
  /\ \/ x.neg /\ (x.m > 0 \/ ym > 0)
     \/ ~x.neg /\ x.m * Pow10(ye) < ym * Pow10(x.e)
Greater(x, ym, ye) ==
  /\ ~x.nan
  /\ ~x.neg
  /\ x.m * Pow10(ye) > ym * Pow10(x.e)

\* ----------------------------------------------------------------- dates
MonthNames == << <<"j","a","n">>, <<"f","e","b">>, <<"m","a","r">>,
                 <<"a","p","r">>, <<"m","a","y">>, <<"j","u","n">>,
                 <<"j","u","l">>, <<"a","u","g">>, <<"s","e","p">>,
                 <<"o","c","t">>, <<"n","o","v">>, <<"d","e","c">> >>
\* the month a word names by its first three letters, 0 when it names none
MonthOf(w) ==
  LET lw == [i \in 1..Len(w) |-> toLowerCase(w[i])]
  IN IF Len(w) >= 3 /\ (\A i \in 1..Len(w) : w[i] \in Letter)
        /\ \E k \in 1..12 : MonthNames[k] = SubSeq(lw, 1, 3)
     THEN CHOOSE k \in 1..12 : MonthNames[k] = SubSeq(lw, 1, 3)
     ELSE 0
InvalidDate == [valid |-> FALSE, y |-> 0, m |-> 0, d |-> 0, now |-> FALSE]
DateOf(y, m, d) == [valid |-> TRUE, y |-> y, m |-> m, d |-> d, now |-> FALSE]
\* new Date(): the current instant
Now == [valid |-> TRUE, y |-> 0, m |-> 0, d |-> 0, now |-> TRUE]
\* the date of calendar fields, Invalid Date when a field is out of range
Fields(y, m, d) ==
  IF m \in 1..12 /\ d \in 1..31 THEN DateOf(y, m, d) ELSE InvalidDate

Split(str, sep) ==
  LET RECURSIVE parts(_, _)
      parts(i, cur) ==
        IF i > Len(str) THEN <<cur>>
        ELSE IF str[i] = sep THEN <<cur>> \o parts(i + 1, <<>>)
             ELSE parts(i + 1, Append(cur, str[i]))
  IN parts(1, <<>>)
AllDigits(w) == w # <<>> /\ \A i \in 1..Len(w) : w[i] \in Digit

\* new Date(str): the set of dates the constructor can produce.  The ISO
\* form yyyy-mm-dd is fixed by the language; every other form is parsed by
\* implementation-defined rules.  Modelled as fixed: "d Mon yyyy" and
\* "Mon d, yyyy" with a month name, and "m/d/yyyy" and "m/d/yy" (month
\* first, a 2-digit year below 50 in 20yy, else in 19yy); a word that
\* names no month after the day makes the date invalid.  Any other string
\* may give Invalid Date or some date.
NewDate(str) ==
  LET dash  == Split(str, "-")
      slash == Split(str, "/")
      sp    == Split(SelectSeq(str, LAMBDA ch : ch # ","), " ")
  IN IF Len(dash) = 3 /\ AllDigits(dash[1]) /\ Len(dash[1]) = 4
        /\ AllDigits(dash[2]) /\ Len(dash[2]) = 2
        /\ AllDigits(dash[3]) /\ Len(dash[3]) = 2
     THEN {Fields(ToInt(dash[1]), ToInt(dash[2]), ToInt(dash[3]))}
     ELSE IF Len(slash) = 3 /\ AllDigits(slash[1]) /\ AllDigits(slash[2])
             /\ AllDigits(slash[3]) /\ Len(slash[3]) = 4
     THEN {Fields(ToInt(slash[3]), ToInt(slash[1]), ToInt(slash[2]))}
     ELSE IF Len(slash) = 3 /\ AllDigits(slash[1]) /\ AllDigits(slash[2])
             /\ AllDigits(slash[3]) /\ Len(slash[3]) = 2
     THEN {Fields((IF ToInt(slash[3]) < 50 THEN 2000 ELSE 1900) + ToInt(slash[3]),
                  ToInt(slash[1]), ToInt(slash[2]))}
     ELSE IF Len(sp) = 3 /\ AllDigits(sp[1]) /\ AllDigits(sp[3])
             /\ Len(sp[3]) = 4 /\ sp[2] # <<>>
             /\ \A i \in 1..Len(sp[2]) : sp[2][i] \in Letter
     THEN {Fields(ToInt(sp[3]), MonthOf(sp[2]), ToInt(sp[1]))}
     ELSE IF Len(sp) = 3 /\ MonthOf(sp[1]) > 0 /\ AllDigits(sp[2])
             /\ AllDigits(sp[3]) /\ Len(sp[3]) = 4
     THEN {Fields(ToInt(sp[3]), MonthOf(sp[1]), ToInt(sp[2]))}
     ELSE {InvalidDate, DateOf(0, 0, 0)}

\* ------------------------------------------- multi-match mode: the patterns
Currency == ClassI({"rupee", "$", "R", "s", "."}) \cup Space   \* [₹$Rs.\s], i flag
NumberRe == Cat(<<Plus(Digit \cup {","}), Opt({"."}), Star(Digit)>>) \* [\d,]+\.?\d*
SlashDate4 ==                                     \* \d{1,2}\/\d{1,2}\/\d{4}
  Cat(<<Times(Digit, 1, 2), Ch({"/"}), Times(Digit, 1, 2), Ch({"/"}),
        Times(Digit, 4, 4)>>)
IsoDate ==                                        \* \d{4}-\d{2}-\d{2}
  Cat(<<Times(Digit, 4, 4), Ch({"-"}), Times(Digit, 2, 2), Ch({"-"}),
        Times(Digit, 2, 2)>>)
NumDate ==                                        \* \d{1,2}[-/]\d{1,2}[-/]\d{2,4}
  Cat(<<Times(Digit, 1, 2), Ch({"-", "/"}), Times(Digit, 1, 2),
        Ch({"-", "/"}), Times(Digit, 2, 4)>>)

\* /Date:\s*(\d+\s+\w+\s+\d{4}).*?Description:\s*([^\n]+?).*?Amount:\s*([-+]?[\d,]+\.?\d*)/gis
pattern1 ==
  Cat(<<LitI(<<"D","a","t","e",":">>), Star(Space),
        Grp(1, Cat(<<Plus(Digit), Plus(Space), Plus(Word), Plus(Space),
                     Times(Digit, 4, 4)>>)),
        StarLazy(AnyChar),
        LitI(<<"D","e","s","c","r","i","p","t","i","o","n",":">>), Star(Space),
        Grp(2, PlusLazy(AnyChar \ {"\n"})),
        StarLazy(AnyChar),
        LitI(<<"A","m","o","u","n","t",":">>), Star(Space),
        Grp(3, Cat(<<Opt({"-", "+"}), NumberRe>>))>>)

\* (debited|credited|debit|credit|dr|cr), i flag
TypeWord2 ==
  Alt(<<LitI(<<"d","e","b","i","t","e","d">>), LitI(<<"c","r","e","d","i","t","e","d">>),
        LitI(<<"d","e","b","i","t">>), LitI(<<"c","r","e","d","i","t">>),
        LitI(<<"d","r">>), LitI(<<"c","r">>)>>)
\* /([^\n*]+)\*?\s*([^\n]*?)\s*(\d{1,2}\/\d{1,2}\/\d{4})\s*[→\-:]*\s*[₹$Rs.\s]*([\d,]+\.?\d*)\s*(debited|credited|debit|credit|dr|cr)/gi
pattern2 ==
  Cat(<<Grp(1, Plus(AnyChar \ {"\n", "*"})), Opt({"*"}), Star(Space),
        Grp(2, StarLazy(AnyChar \ {"\n"})), Star(Space),
        Grp(3, SlashDate4), Star(Space), Star({"arrow", "-", ":"}),
        Star(Space), Star(Currency),
        Grp(4, NumberRe), Star(Space), Grp(5, TypeWord2)>>)

\* (Dr|Cr|debit|credit|debited|credited), i flag
TypeWord3 ==
  Alt(<<LitI(<<"D","r">>), LitI(<<"C","r">>),
        LitI(<<"d","e","b","i","t">>), LitI(<<"c","r","e","d","i","t">>),
        LitI(<<"d","e","b","i","t","e","d">>), LitI(<<"c","r","e","d","i","t","e","d">>)>>)
\* /(?:txn\w+\s+)?(\d{4}-\d{2}-\d{2})\s+(.+?)\s*[₹$Rs.\s]*([\d,]+\.?\d*)\s+(Dr|Cr|debit|credit|debited|credited)(?:\s+Bal\s+[₹$Rs.\s]*([\d,]+\.?\d*))?/gi
pattern3 ==
  Cat(<<Rep(Cat(<<LitI(<<"t","x","n">>), Plus(Word), Plus(Space)>>), 0, 1),
        Grp(1, IsoDate), Plus(Space), Grp(2, PlusLazy(Dot)), Star(Space),
        Star(Currency), Grp(3, NumberRe), Plus(Space), Grp(4, TypeWord3),
        Rep(Cat(<<Plus(Space), LitI(<<"B","a","l">>), Plus(Space),
                  Star(Currency), Grp(5, NumberRe)>>), 0, 1)>>)

\* /(\d{1,2}[-/]\d{1,2}[-/]\d{2,4}|\d{4}-\d{2}-\d{2}).*?[₹$Rs.\s]([\d,]+\.?\d*)/gi
pattern4 ==
  Cat(<<Grp(1, Alt(<<NumDate, IsoDate>>)), StarLazy(Dot), Ch(Currency),
        Grp(2, NumberRe)>>)


\* ------------------------------------------------ multi-match mode: helpers
\* str.includes(sub)
includes(str, sub) ==
  \E i \in 0..(Len(str) - Len(sub)) : SubSeq(str, i + 1, i + Len(sub)) = sub
\* str.startsWith(sub)
startsWith(str, sub) ==
  Len(str) >= Len(sub) /\ SubSeq(str, 1, Len(sub)) = sub
lower(str) == [i \in 1..Len(str) |-> toLowerCase(str[i])]

\* /\d+\s+\w+\s+\d{4}/
DayWordYear ==
  Cat(<<Plus(Digit), Plus(Space), Plus(Word), Plus(Space), Times(Digit, 4, 4)>>)
\* /\d+\/\d+\/\d{4}/
SlashYear4 ==
  Cat(<<Plus(Digit), Ch({"/"}), Plus(Digit), Ch({"/"}), Times(Digit, 4, 4)>>)
\* the dates parseDate(dateStr) can return
parseDate(dateStr) ==
  IF Match(dateStr, DayWordYear).ok THEN NewDate(dateStr)
  ELSE IF Match(dateStr, SlashYear4).ok
  THEN LET parts == Split(dateStr, "/")
       IN NewDate(parts[2] \o <<"/">> \o parts[1] \o <<"/">> \o parts[3])
  ELSE NewDate(dateStr)

\* processedRanges.some(([s, e]) => (start >= s && start <= e) || (end >= s && end <= e))
isOverlapping(ranges, start, end) ==
  \E i \in 1..Len(ranges) :
    \/ start >= ranges[i][1] /\ start <= ranges[i][2]
    \/ end >= ranges[i][1] /\ end <= ranges[i][2]

\* A record of the result.  confidence is in hundredths.  pattern, start and
\* end are not fields of the program's record: they note which pattern made
\* the record and the span [start, end) of the match it was made from.
Txn(date, amount, type, balance, confidence, pattern, m) ==
  [date |-> date, amount |-> amount, type |-> type, balance |-> balance,
   confidence |-> confidence, pattern |-> pattern,
   start |-> m.index, end |-> m.end]
\* the absent balance
Undefined == [kind |-> "undefined"]
\* balanceMatch ? Number.parseFloat(balanceMatch[1].replace(/,/g, "")) : undefined
\* for the match of r in str
balanceOf(str, r) ==
  LET balanceMatch == Match(str, r)
  IN IF balanceMatch.ok THEN parseFloat(StripCommas(Cap(str, balanceMatch, 1)))
     ELSE Undefined

\* the record each loop body builds from its match m, but for the date
\* record1 whose amount keeps the sign of the labeled number
record1Signed(t, m, date) ==
  LET amountStr == StripCommas(Cap(t, m, 3))
  IN Txn(date, parseFloat(amountStr),
         IF Less(parseFloat(amountStr), 0, 0) THEN "debit" ELSE "credit",
         balanceOf(Matched(t, m),
                   Cat(<<LitI(<<"B","a","l","a","n","c","e">>), StarLazy(Dot),
                         Opt({":", "arrow"}), Star(Space), Opt({"rupee", "$"}),
                         Grp(1, NumberRe)>>)),
         95, 1, m)
record1(t, m, date) ==
  LET amountStr == StripCommas(Cap(t, m, 3))
  IN Txn(date, abs(parseFloat(amountStr)),
         IF Less(parseFloat(amountStr), 0, 0) THEN "debit" ELSE "credit",
         \* match[0].match(/Balance.*?[:→]?\s*[₹$]?([\d,]+\.?\d*)/i)
         balanceOf(Matched(t, m),
                   Cat(<<LitI(<<"B","a","l","a","n","c","e">>), StarLazy(Dot),
                         Opt({":", "arrow"}), Star(Space), Opt({"rupee", "$"}),
                         Grp(1, NumberRe)>>)),
         95, 1, m)
\* record2 with a confidence above that of pattern 1
record2Raised(t, m, date) ==
  LET typeStr == lower(Cap(t, m, 5))
  IN Txn(date, parseFloat(StripCommas(Cap(t, m, 4))),
         IF includes(typeStr, <<"d","e","b">>) \/ includes(typeStr, <<"d","r">>)
         THEN "debit" ELSE "credit",
         \* match[0].match(/(?:Balance|Bal).*?[₹$Rs.\s]*([\d,]+\.?\d*)/i)
         balanceOf(Matched(t, m),
                   Cat(<<Alt(<<LitI(<<"B","a","l","a","n","c","e">>),
                               LitI(<<"B","a","l">>)>>),
                         StarLazy(Dot), Star(Currency), Grp(1, NumberRe)>>)),
         96, 2, m)
record2(t, m, date) ==
  LET typeStr == lower(Cap(t, m, 5))
  IN Txn(date, parseFloat(StripCommas(Cap(t, m, 4))),
         IF includes(typeStr, <<"d","e","b">>) \/ includes(typeStr, <<"d","r">>)
         THEN "debit" ELSE "credit",
         \* match[0].match(/(?:Balance|Bal).*?[₹$Rs.\s]*([\d,]+\.?\d*)/i)
         balanceOf(Matched(t, m),
                   Cat(<<Alt(<<LitI(<<"B","a","l","a","n","c","e">>),
                               LitI(<<"B","a","l">>)>>),
                         StarLazy(Dot), Star(Currency), Grp(1, NumberRe)>>)),
         92, 2, m)
\* record3 with the confidence of the fallback
record3Fallback(t, m, date) ==
  Txn(date, parseFloat(StripCommas(Cap(t, m, 3))),
      IF startsWith(lower(Cap(t, m, 4)), <<"d">>) THEN "debit" ELSE "credit",
      IF Cap(t, m, 5) # <<>> THEN parseFloat(StripCommas(Cap(t, m, 5)))
      ELSE Undefined,
      70, 3, m)
record3(t, m, date) ==
  Txn(date, parseFloat(StripCommas(Cap(t, m, 3))),
      \* match[4].toUpperCase().startsWith("D")
      IF startsWith(lower(Cap(t, m, 4)), <<"d">>) THEN "debit" ELSE "credit",
      \* match[5] ? Number.parseFloat(match[5].replace(/,/g, "")) : undefined
      IF Cap(t, m, 5) # <<>> THEN parseFloat(StripCommas(Cap(t, m, 5)))
      ELSE Undefined,
      90, 3, m)
record4(t, m, date) ==
  LET \* /(debit|credit|dr|cr|debited|credited)/i
      typeWord ==
        Alt(<<LitI(<<"d","e","b","i","t">>), LitI(<<"c","r","e","d","i","t">>),
              LitI(<<"d","r">>), LitI(<<"c","r">>),
              LitI(<<"d","e","b","i","t","e","d">>),
              LitI(<<"c","r","e","d","i","t","e","d">>)>>)
      typeMatch == Match(Matched(t, m), Grp(1, typeWord))
  IN Txn(date, parseFloat(StripCommas(Cap(t, m, 2))),
         IF typeMatch.ok /\ startsWith(lower(Cap(Matched(t, m), typeMatch, 1)), <<"d">>)
         THEN "debit" ELSE "credit",
         Undefined, 70, 4, m)

\* ------------------------------------------- single-best mode: the patterns
Newline == {"\n", "\r"}
NumTok == Plus(Digit \cup {",", "."})                     \* [\d,.]+
RsInr ==                                                  \* (?:Rs\.?|INR|₹), i flag
  Alt(<<Cat(<<LitI(<<"R","s">>), Opt({"."})>>), LitI(<<"I","N","R">>), Ch({"rupee"})>>)
CurrencyInr ==                                            \* (?:[₹$Rs.\s]|INR\s)*
  Rep(Alt(<<Ch(Currency), Cat(<<LitI(<<"I","N","R">>), Ch(Space)>>)>>), 0, -1)
DebitedCredited ==                                        \* (?:debited|credited)
  Alt(<<LitI(<<"d","e","b","i","t","e","d">>), LitI(<<"c","r","e","d","i","t","e","d">>)>>)
OnAt == Alt(<<LitI(<<"o","n">>), LitI(<<"a","t">>)>>)     \* (?:on|at)
\* \d{1,2} sep \w{3,} sep \d{2,4}, for the separators of S
WordDate(S) ==
  Cat(<<Times(Digit, 1, 2), Ch(S), Times(Word, 3, -1), Ch(S), Times(Digit, 2, 4)>>)

\* /Date:\s*(\d+\s+\w+\s+\d{4})\s*[\n\r]+\s*(?:Description:|Merchant:)\s*([^\n\r]+)[\n\r]+\s*Amount[:\s]+(?:USD|INR|Rs\.?|₹)?\s*([-+]?[\d.,]+)/i
parser_pattern1 ==
  Cat(<<LitI(<<"D","a","t","e",":">>), Star(Space), Grp(1, DayWordYear),
        Star(Space), Plus(Newline), Star(Space),
        Alt(<<LitI(<<"D","e","s","c","r","i","p","t","i","o","n",":">>),
              LitI(<<"M","e","r","c","h","a","n","t",":">>)>>),
        Star(Space), Grp(2, Plus(AnyChar \ Newline)), Plus(Newline), Star(Space),
        LitI(<<"A","m","o","u","n","t">>), Plus({":"} \cup Space),
        Rep(Alt(<<LitI(<<"U","S","D">>), LitI(<<"I","N","R">>),
                  Cat(<<LitI(<<"R","s">>), Opt({"."})>>), Ch({"rupee"})>>), 0, 1),
        Star(Space), Grp(3, Cat(<<Opt({"-", "+"}), NumTok>>))>>)
\* /(\d{1,2}[-/]\w{3,}[-/]\d{2,4})\s*\|\s*([^|]+?)\s*\|\s*(?:Debited?:|Credited?:)?\s*(?:Rs\.?|INR|₹)?\s*([\d,.]+)\s*\|\s*(?:Debited?|Credited?)/i
parser_pattern2 ==
  Cat(<<Grp(1, WordDate({"-", "/"})), Star(Space), Ch({"|"}), Star(Space),
        Grp(2, PlusLazy(AnyChar \ {"|"})), Star(Space), Ch({"|"}), Star(Space),
        Rep(Alt(<<Cat(<<LitI(<<"D","e","b","i","t","e">>), Opt({"d", "D"}), Ch({":"})>>),
                  Cat(<<LitI(<<"C","r","e","d","i","t","e">>), Opt({"d", "D"}), Ch({":"})>>)>>), 0, 1),
        Star(Space), Rep(RsInr, 0, 1), Star(Space), Grp(3, NumTok),
        Star(Space), Ch({"|"}), Star(Space),
        Alt(<<Cat(<<LitI(<<"D","e","b","i","t","e">>), Opt({"d", "D"})>>),
              Cat(<<LitI(<<"C","r","e","d","i","t","e">>), Opt({"d", "D"})>>)>>)>>)
\* /([^\n*]+)\*?\s*([^\n]*?)[\n\r]*\s*(\d{1,2}\/\d{1,2}\/\d{2,4})\s*[→\-:]*\s*(?:[₹$Rs.\s]|INR\s)*([\d,.]+)\s*(debited|credited|debit|credit|dr|cr)/i
parser_pattern3 ==
  Cat(<<Grp(1, Plus(AnyChar \ {"\n", "*"})), Opt({"*"}), Star(Space),
        Grp(2, StarLazy(AnyChar \ {"\n"})), Star(Newline), Star(Space),
        Grp(3, Cat(<<Times(Digit, 1, 2), Ch({"/"}), Times(Digit, 1, 2), Ch({"/"}),
                     Times(Digit, 2, 4)>>)),
        Star(Space), Star({"arrow", "-", ":"}), Star(Space), CurrencyInr,
        Grp(4, NumTok), Star(Space), Grp(5, TypeWord2)>>)
\* /(?:txn\w+\s+)?(\d{4}-\d{2}-\d{2})\s+(.+?)\s*(?:[₹$Rs.\s]|INR\s)*([\d,.]+)\s+(Dr|Cr|debit|credit|debited|credited)/i
parser_pattern4 ==
  Cat(<<Rep(Cat(<<LitI(<<"t","x","n">>), Plus(Word), Plus(Space)>>), 0, 1),
        Grp(1, IsoDate), Plus(Space), Grp(2, PlusLazy(Dot)), Star(Space),
        CurrencyInr, Grp(3, NumTok), Plus(Space), Grp(4, TypeWord3)>>)
\* /(?:Rs\.?|INR|₹)\s*([\d,.]+)\s+(?:debited|credited)\s+(?:from|to)?.*?(?:on|at)\s+(\d{1,2}[-/]\w{3,}[-/]\d{2,4})/i
parser_pattern5 ==
  Cat(<<RsInr, Star(Space), Grp(1, NumTok), Plus(Space), DebitedCredited,
        Plus(Space), Rep(Alt(<<LitI(<<"f","r","o","m">>), LitI(<<"t","o">>)>>), 0, 1),
        StarLazy(Dot), OnAt, Plus(Space), Grp(2, WordDate({"-", "/"}))>>)
\* /(?:A\/C|Account|wallet).*?(?:debited|credited).*?(?:by|for|of)?\s*(?:Rs\.?|INR|₹)\s*([\d,.]+).*?on\s+(\d{1,2}[-/\s]\w{3,}[-/\s]\d{2,4})/i
parser_pattern6 ==
  Cat(<<Alt(<<LitI(<<"A","/","C">>), LitI(<<"A","c","c","o","u","n","t">>),
              LitI(<<"w","a","l","l","e","t">>)>>),
        StarLazy(Dot), DebitedCredited, StarLazy(Dot),
        Rep(Alt(<<LitI(<<"b","y">>), LitI(<<"f","o","r">>), LitI(<<"o","f">>)>>), 0, 1),
        Star(Space), RsInr, Star(Space), Grp(1, NumTok), StarLazy(Dot),
        LitI(<<"o","n">>), Plus(Space), Grp(2, WordDate({"-", "/"} \cup Space))>>)
\* /(paid|received|sent|transfer|Payment)\s+(?:of\s)?(?:[₹$Rs.\s]|INR\s)*([\d,.]+).*?(?:on|at)\s+(\d{1,2}[-/\s]\w{3,}[-/\s]\d{2,4})/i
parser_pattern7 ==
  Cat(<<Grp(1, Alt(<<LitI(<<"p","a","i","d">>), LitI(<<"r","e","c","e","i","v","e","d">>),
                     LitI(<<"s","e","n","t">>), LitI(<<"t","r","a","n","s","f","e","r">>),
                     LitI(<<"P","a","y","m","e","n","t">>)>>)),
        Plus(Space), Rep(Cat(<<LitI(<<"o","f">>), Ch(Space)>>), 0, 1), CurrencyInr,
        Grp(2, NumTok), StarLazy(Dot), OnAt, Plus(Space),
        Grp(3, WordDate({"-", "/"} \cup Space))>>)
\* (?:sent|paid|transferred|charged), i flag
SentPaid ==
  Alt(<<LitI(<<"s","e","n","t">>), LitI(<<"p","a","i","d">>),
        LitI(<<"t","r","a","n","s","f","e","r","r","e","d">>),
        LitI(<<"c","h","a","r","g","e","d">>)>>)
\* /(?:[₹$Rs.\s]|INR\s|of\sRs\.?\s)([\d,.]+)\s+(?:sent|paid|transferred|charged).*?(?:on|at)\s+(\d{1,2}[-/]\d{1,2}[-/]\d{2,4})/i
parser_pattern8 ==
  Cat(<<Alt(<<Ch(Currency), Cat(<<LitI(<<"I","N","R">>), Ch(Space)>>),
              Cat(<<LitI(<<"o","f">>), Ch(Space), LitI(<<"R","s">>), Opt({"."}), Ch(Space)>>)>>),
        Grp(1, NumTok), Plus(Space), SentPaid, StarLazy(Dot), OnAt, Plus(Space),
        Grp(2, NumDate)>>)
\* /Date:\s*(\d{1,2}\s+\w{3,}\s+\d{4})\s*[\n\r]+.*?(?:Paid\sto|Merchant):\s*([^\n\r]+)[\n\r]+.*?Amount.*?(?:Rs\.?|INR|₹)?\s*([\d,.]+)/i
parser_pattern9 ==
  Cat(<<LitI(<<"D","a","t","e",":">>), Star(Space),
        Grp(1, Cat(<<Times(Digit, 1, 2), Plus(Space), Times(Word, 3, -1), Plus(Space),
                     Times(Digit, 4, 4)>>)),
        Star(Space), Plus(Newline), StarLazy(Dot),
        Alt(<<Cat(<<LitI(<<"P","a","i","d">>), Ch(Space), LitI(<<"t","o">>)>>),
              LitI(<<"M","e","r","c","h","a","n","t">>)>>),
        Ch({":"}), Star(Space), Grp(2, Plus(AnyChar \ Newline)), Plus(Newline),
        StarLazy(Dot), LitI(<<"A","m","o","u","n","t">>), StarLazy(Dot),
        Rep(RsInr, 0, 1), Star(Space), Grp(3, NumTok)>>)
\* /(\d{1,2}[-/]\d{1,2}[-/]\d{2,4}|\d{4}-\d{2}-\d{2}|\d+\s+\w{3,}\s+\d{4})/
parser_dateMatch ==
  Grp(1, Alt(<<NumDate, IsoDate,
               Cat(<<Plus(Digit), Plus(Space), Times(Word, 3, -1), Plus(Space),
                     Times(Digit, 4, 4)>>)>>))
\* /(?:[₹$]|INR\s*|Rs\.?\s*|of\sRs\.?\s)([\d,.]+)/
parser_amountMatch ==
  Cat(<<Alt(<<Ch({"rupee", "$"}),
              Cat(<<Lit(<<"I","N","R">>), Star(Space)>>),
              Cat(<<Lit(<<"R","s">>), Opt({"."}), Star(Space)>>),
              Cat(<<Lit(<<"o","f">>), Ch(Space), Lit(<<"R","s">>), Opt({"."}), Ch(Space)>>)>>),
        Grp(1, NumTok)>>)
\* /(debited?|credited?|dr|cr|paid|received|sent)/i
parser_typeMatch ==
  Grp(1, Alt(<<Cat(<<LitI(<<"d","e","b","i","t","e">>), Opt({"d", "D"})>>),
               Cat(<<LitI(<<"c","r","e","d","i","t","e">>), Opt({"d", "D"})>>),
               LitI(<<"d","r">>), LitI(<<"c","r">>), LitI(<<"p","a","i","d">>),
               LitI(<<"r","e","c","e","i","v","e","d">>), LitI(<<"s","e","n","t">>)>>))

\* -------------------------------------------- single-best mode: the records
\* str.split(/\s+/)
SplitWs(str) ==
  LET RECURSIVE parts(_, _)
      parts(i, cur) ==
        IF i > Len(str) THEN <<cur>>
        ELSE IF str[i] \in Space
        THEN IF i > 1 /\ str[i - 1] \in Space THEN parts(i + 1, cur)
             ELSE <<cur>> \o parts(i + 1, <<>>)
        ELSE parts(i + 1, Append(cur, str[i]))
  IN parts(1, <<>>)
\* str.padStart(2, "0")
padStart2(str) == IF Len(str) < 2 THEN <<"0">> \o str ELSE str
\* 2-digit years get the prefix 20
FullYear(year) == IF Len(year) = 2 THEN <<"2", "0">> \o year ELSE year

Throw == [kind |-> "throw"]
Null == [kind |-> "null"]
\* date.toISOString(): RangeError for Invalid Date
toISOString(dates) == {IF d.valid THEN d ELSE Throw : d \in dates}

\* the outcomes of parseDateString(dateStr): dates, or Throw
parseDateString(dateStr) ==
  IF Match(dateStr, Cat(<<Plus(Digit), Ch({"-"} \cup Space), Times(Word, 3, -1),
                          Ch({"-"} \cup Space), Times(Digit, 2, 4)>>)).ok
  THEN LET normalized == [i \in 1..Len(dateStr) |->
                            IF dateStr[i] = "-" THEN " " ELSE dateStr[i]]
           parts == SplitWs(normalized)
       IN IF Len(parts) = 3
          THEN toISOString(NewDate(parts[2] \o <<" ">> \o parts[1] \o <<",", " ">>
                                   \o FullYear(parts[3])))
          ELSE toISOString(NewDate(normalized))
  ELSE IF Match(dateStr, Cat(<<Times(Digit, 1, 2), Ch({"/"}), Times(Digit, 1, 2),
                               Ch({"/"}), Times(Digit, 2, 4)>>)).ok
  THEN LET parts == Split(dateStr, "/")
       IN toISOString(NewDate(FullYear(parts[3]) \o <<"-">> \o padStart2(parts[2])
                              \o <<"-">> \o padStart2(parts[1])))
  ELSE IF Match(dateStr, IsoDate).ok
  THEN toISOString(NewDate(dateStr))
  ELSE {IF d.valid THEN d ELSE Now : d \in NewDate(dateStr)}

\* the value parseTransaction returns from pattern number pattern
Parsed(date, amount, type, balance, confidence, pattern) ==
  [kind |-> "record", date |-> date, amount |-> amount, type |-> type,
   balance |-> balance, confidence |-> confidence, pattern |-> pattern]
\* a record for each date of dates, Throw for Throw
Outcomes(dates, amount, type, balance, confidence, pattern) ==
  {IF d = Throw THEN Throw ELSE Parsed(d, amount, type, balance, confidence, pattern) :
     d \in dates}
DebitedIn(t) ==                      \* text.toLowerCase().includes("debited")
  IF includes(lower(t), <<"d","e","b","i","t","e","d">>) THEN "debit" ELSE "credit"

\* what each branch of parseTransaction returns for its match m of text t
parsed1(t, m) ==
  LET amountStr == StripCommas(Cap(t, m, 3))
  IN Outcomes(toISOString(NewDate(Cap(t, m, 1))), abs(parseFloat(amountStr)),
              IF Less(parseFloat(amountStr), 0, 0) THEN "debit" ELSE "credit",
              \* text.match(/Balance.*?[:=\s](?:Rs\.?|INR|₹)?\s*([\d.,]+)/i), Math.abs
              LET b == balanceOf(t, Cat(<<LitI(<<"B","a","l","a","n","c","e">>),
                                          StarLazy(Dot), Ch({":", "="} \cup Space),
                                          Rep(RsInr, 0, 1), Star(Space),
                                          Grp(1, NumTok)>>))
              IN IF b = Undefined THEN b ELSE abs(b),
              95, 1)
parsed2(t, m) ==
  Outcomes(parseDateString(Cap(t, m, 1)), parseFloat(StripCommas(Cap(t, m, 3))),
           DebitedIn(t),
           \* text.match(/(?:Closing\s)?Bal[ance]*.*?(?:Rs\.?|INR|₹)?\s*([\d,.]+)/i)
           balanceOf(t, Cat(<<Rep(Cat(<<LitI(<<"C","l","o","s","i","n","g">>),
                                        Ch(Space)>>), 0, 1),
                              LitI(<<"B","a","l">>), Star(ClassI({"a", "n", "c", "e"})),
                              StarLazy(Dot), Rep(RsInr, 0, 1), Star(Space),
                              Grp(1, NumTok)>>)),
           93, 2)
parsed3(t, m) ==
  LET typeStr == lower(Cap(t, m, 5))
  IN Outcomes(parseDateString(Cap(t, m, 3)), parseFloat(StripCommas(Cap(t, m, 4))),
              IF includes(typeStr, <<"d","e","b">>) \/ includes(typeStr, <<"d","r">>)
              THEN "debit" ELSE "credit",
              \* text.match(/(?:Available\s)?Balance.*?(?:[₹$Rs.\s]|INR\s)*([\d,.]+)/i)
              balanceOf(t, Cat(<<Rep(Cat(<<LitI(<<"A","v","a","i","l","a","b","l","e">>),
                                           Ch(Space)>>), 0, 1),
                                 LitI(<<"B","a","l","a","n","c","e">>), StarLazy(Dot),
                                 CurrencyInr, Grp(1, NumTok)>>)),
              92, 3)
parsed4(t, m) ==
  Outcomes(toISOString(NewDate(Cap(t, m, 1))), parseFloat(StripCommas(Cap(t, m, 3))),
           IF startsWith(lower(Cap(t, m, 4)), <<"d">>) THEN "debit" ELSE "credit",
           \* text.match(/Bal\s+(?:[₹$Rs.\s]|INR\s)*([\d,.]+)/i)
           balanceOf(t, Cat(<<LitI(<<"B","a","l">>), Plus(Space), CurrencyInr,
                              Grp(1, NumTok)>>)),
           90, 4)
parsed5(t, m) ==
  Outcomes(parseDateString(Cap(t, m, 2)), parseFloat(StripCommas(Cap(t, m, 1))),
           DebitedIn(t), Undefined, 88, 5)
parsed6(t, m) ==
  Outcomes(parseDateString(Cap(t, m, 2)), parseFloat(StripCommas(Cap(t, m, 1))),
           DebitedIn(t), Undefined, 87, 6)
parsed7(t, m) ==
  Outcomes(parseDateString(Cap(t, m, 3)), parseFloat(StripCommas(Cap(t, m, 2))),
           IF lower(Cap(t, m, 1)) = <<"r","e","c","e","i","v","e","d">>
           THEN "credit" ELSE "debit", Undefined, 85, 7)
parsed8(t, m) ==
  Outcomes(parseDateString(Cap(t, m, 2)), parseFloat(StripCommas(Cap(t, m, 1))),
           IF Match(lower(t), SentPaid).ok THEN "debit" ELSE "credit",
           Undefined, 84, 8)
parsed9(t, m) ==
  Outcomes(parseDateString(Cap(t, m, 1)), parseFloat(StripCommas(Cap(t, m, 3))),
           "debit", Undefined, 86, 9)
\* parsed10 with a filter that rejects the two bounds as well
parsed10Strict(t, dateMatch, amountMatch) ==
  LET amount == parseFloat(StripCommas(Cap(t, amountMatch, 1)))
      typeMatch == Match(t, parser_typeMatch)
      typeStr == IF typeMatch.ok THEN lower(Cap(t, typeMatch, 1)) ELSE <<>>
  IN IF isNaN(amount) \/ ~Greater(amount, 1, 1) \/ ~Less(amount, 10000000, 0)
     THEN {Null}
     ELSE Outcomes(parseDateString(Cap(t, dateMatch, 1)), amount,
                   IF Match(typeStr, Alt(<<Lit(<<"d","e","b">>), Lit(<<"d","r">>),
                                           Lit(<<"p","a","i","d">>), Lit(<<"s","e","n","t">>)>>)).ok
                   THEN "debit" ELSE "credit", Undefined, 70, 10)
\* the generic fallback, for the matches of dateMatch and amountMatch
parsed10(t, dateMatch, amountMatch) ==
  LET amount == parseFloat(StripCommas(Cap(t, amountMatch, 1)))
      typeMatch == Match(t, parser_typeMatch)
      typeStr == IF typeMatch.ok THEN lower(Cap(t, typeMatch, 1)) ELSE <<>>
  IN IF isNaN(amount) \/ Less(amount, 1, 1) \/ Greater(amount, 10000000, 0)
     THEN {Null}
     ELSE Outcomes(parseDateString(Cap(t, dateMatch, 1)), amount,
                   IF Match(typeStr, Alt(<<Lit(<<"d","e","b">>), Lit(<<"d","r">>),
                                           Lit(<<"p","a","i","d">>), Lit(<<"s","e","n","t">>)>>)).ok
                   THEN "debit" ELSE "credit", Undefined, 70, 10)

\* -------------------------------------------------------------- the inputs
\* the texts of multi-match mode: up to MaxLines of Lines, one per line
MaxLines == 3
Lines ==
  <<
     <<"x"," ","D","a","t","e",":"," ","1"," ","J","a","n"," ","2","0","2",
       "5"," ","D","e","s","c","r","i","p","t","i","o","n",":"," ","a"," ",
       "A","m","o","u","n","t",":"," ","-","5">>,
     <<"1","/","1","/","2","0","2","5"," ","5"," ","d","r">>,
     <<"2","0","2","5","-","1","3","-","1","0"," ","v"," ",","," ","C","r">>,
     <<"1","/","2","/","2","5"," ","R","s"," ","7">> >>
\* the elements of vocabulary voc that ws numbers, joined by sep
RECURSIVE Join(_, _, _)
Join(voc, ws, sep) ==
  IF Len(ws) = 0 THEN <<>>
  ELSE IF Len(ws) = 1 THEN voc[ws[1]]
  ELSE voc[ws[1]] \o sep \o Join(voc, Tail(ws), sep)
\* and the labeled line with other amounts behind "Amount: "
Texts ==
  {Join(Lines, ws, <<"\n">>) :
     ws \in UNION {[1..n -> 1..Len(Lines)] : n \in 1..MaxLines}}
    \cup {SubSeq(Lines[1], 1, Len(Lines[1]) - 2) \o a :
            a \in {<<"5">>, <<"0">>, <<"-","0">>, <<"+","5",",","0">>}}

\* the texts of single-best mode: up to MaxParts of Parts, with a space between
MaxParts == 2
Parts ==
  <<
     <<"1","2","/","2","6","/","2","0","2","5">>,
     <<"1","/","2","/","2","5">>,
     <<"$","0",".","1">>,
     <<"$","0",".","0","9">>,
     <<"$","1","0","0","0","0","0","0","0">>,
     <<"$","1","0","0","0","0","0","0","1">>,
     <<"R","s">>,
     <<"2","0","2","5","-","1","2","-","1","0"," ","v"," ",","," ","C","r">>,
     <<"D","a","t","e",":"," ","1"," ","J","a","n"," ","2","0","2","5","\n",
       "P","a","i","d"," ","t","o",":"," ","y","\n","A","m","o","u","n","t",
       ":"," ","R","s"," ","5"," ","p","a","i","d"," ","o","n"," ","1","-",
       "1","-","2","5">> >>
\* further texts of single-best mode: up to MaxNotes of Notes, with a space
\* between; no note at all gives the empty text
MaxNotes == 2
Notes ==
  <<
     <<"R","s"," ","5"," ","c","r","e","d","i","t","e","d"," ","o","n"," ",
       "1","-","J","a","n","-","2","5">>,
     <<"d","e","b","i","t","e","d">>,
     <<"B","a","l"," ","9">>,
     <<" ">>,
     <<"x">> >>
Messages ==
  {Join(Parts, ws, <<" ">>) :
     ws \in UNION {[1..n -> 1..Len(Parts)] : n \in 1..MaxParts}}
    \cup {Join(Notes, ws, <<" ">>) :
            ws \in UNION {[1..n -> 1..Len(Notes)] : n \in 0..MaxNotes}}

\* ---------------------------------------------- multi-match mode: the steps
\* the call of parseTransactions(text): pc is the loop it is in
VARIABLES text, pc, lastIndex, processedRanges, transactions
\* the call of parseTransaction(text): step is the pattern it is to try next,
\* result what it has returned; in multi-match mode step counts the calls that
\* have returned and result is what the call before this one returned; for
\* the classifiers result is the category returned
VARIABLES step, result
\* the server: the rows of the tables Transaction, User and OrganizationMember,
\* the requests that are being handled, and the answer given last
VARIABLES store, users, members, calls, response
\* the dashboard page: its React state and its requests under way
VARIABLES page, fetches
web == <<store, users, members, calls, response, page, fetches>>
vars == <<text, pc, lastIndex, processedRanges, transactions, step, result, web>>
multi == <<pc, lastIndex, processedRanges, transactions>>
Pending == [kind |-> "pending"]

Init ==
  /\ text \in Texts
  /\ pc = "pattern1"
  /\ lastIndex = 0
  /\ processedRanges = <<>>
  /\ transactions = <<>>
  /\ step = 0
  /\ result = Pending
  /\ store = <<>>
  /\ users = <<>>
  /\ members = {}
  /\ calls = {}
  /\ response = Pending
  /\ page = Pending
  /\ fetches = {}

\* the loop of pattern r with an exec that leaves lastIndex at the start of
\* its match
LoopStaying(here, next, r, dateGroup) ==
  /\ pc = here
  /\ \E m \in {Exec(text, r, lastIndex)} :
        IF ~m.ok
        THEN /\ pc' = next
             /\ lastIndex' = 0
             /\ UNCHANGED <<processedRanges, transactions>>
        ELSE /\ pc' = here
             /\ lastIndex' = m.index
             /\ IF isOverlapping(processedRanges, m.index, m.end)
                THEN UNCHANGED <<processedRanges, transactions>>
                ELSE /\ processedRanges' = Append(processedRanges, <<m.index, m.end>>)
                     /\ \E date \in parseDate(Cap(text, m, dateGroup)) :
                          transactions' =
                            Append(transactions,
                                   IF here = "pattern1" THEN record1(text, m, date)
                                   ELSE IF here = "pattern2" THEN record2(text, m, date)
                                   ELSE record3(text, m, date))
  /\ UNCHANGED <<text, step, result>>
  /\ UNCHANGED web
\* one iteration of the loop of pattern r: exec, the overlap test, the push
Loop(here, next, r, dateGroup) ==
  /\ pc = here
  /\ \E m \in {Exec(text, r, lastIndex)} :
        IF ~m.ok
        THEN /\ pc' = next
             /\ lastIndex' = 0
             /\ UNCHANGED <<processedRanges, transactions>>
        ELSE /\ pc' = here
             /\ lastIndex' = m.end
             /\ IF isOverlapping(processedRanges, m.index, m.end)
                THEN UNCHANGED <<processedRanges, transactions>>
                ELSE /\ processedRanges' = Append(processedRanges, <<m.index, m.end>>)
                     /\ \E date \in parseDate(Cap(text, m, dateGroup)) :
                          transactions' =
                            Append(transactions,
                                   IF here = "pattern1" THEN record1(text, m, date)
                                   ELSE IF here = "pattern2" THEN record2(text, m, date)
                                   ELSE record3(text, m, date))
  /\ UNCHANGED <<text, step, result>>
  /\ UNCHANGED web

Pattern1Loop == Loop("pattern1", "pattern2", pattern1, 1)
Pattern2Loop == Loop("pattern2", "pattern3", pattern2, 3)
Pattern3Loop == Loop("pattern3", "pattern4", pattern3, 1)
\* the fallback loop without its break
Pattern4LoopNoBreak ==
  /\ pc = "pattern4"
  /\ \E m \in {Exec(text, pattern4, lastIndex)} :
        IF ~m.ok
        THEN /\ pc' = "return"
             /\ lastIndex' = 0
             /\ UNCHANGED transactions
        ELSE /\ lastIndex' = m.end
             /\ pc' = "pattern4"
             /\ IF isOverlapping(processedRanges, m.index, m.end)
                THEN UNCHANGED transactions
                ELSE \E date \in parseDate(Cap(text, m, 1)) :
                       transactions' = Append(transactions, record4(text, m, date))
  /\ UNCHANGED <<text, processedRanges, step, result>>
  /\ UNCHANGED web
\* the fallback loop: it stops at the first match outside the claimed ranges
\* when a record exists, and claims no range
Pattern4Loop ==
  /\ pc = "pattern4"
  /\ \E m \in {Exec(text, pattern4, lastIndex)} :
        IF ~m.ok
        THEN /\ pc' = "return"
             /\ lastIndex' = 0
             /\ UNCHANGED transactions
        ELSE /\ lastIndex' = m.end
             /\ IF isOverlapping(processedRanges, m.index, m.end)
                THEN pc' = "pattern4" /\ UNCHANGED transactions
                ELSE IF Len(transactions) > 0
                THEN pc' = "return" /\ UNCHANGED transactions
                ELSE /\ pc' = "pattern4"
                     /\ \E date \in parseDate(Cap(text, m, 1)) :
                          transactions' = Append(transactions, record4(text, m, date))
  /\ UNCHANGED <<text, processedRanges, step, result>>
  /\ UNCHANGED web

\* a second call on the same text that finds the ranges of the first call
CallAgainKeeping ==
  /\ pc = "return"
  /\ step = 0
  /\ step' = 1
  /\ result' = [kind |-> "returned", transactions |-> transactions]
  /\ pc' = "pattern1"
  /\ lastIndex' = 0
  /\ transactions' = <<>>
  /\ UNCHANGED <<text, processedRanges>>
  /\ UNCHANGED web
\* a second call of parseTransactions on the same text after the first has
\* returned: result keeps what the first call returned, step counts the calls
\* that have returned; the call has its own transactions and processedRanges
\* and its own regular expressions, with lastIndex 0
CallAgain ==
  /\ pc = "return"
  /\ step = 0
  /\ step' = 1
  /\ result' = [kind |-> "returned", transactions |-> transactions]
  /\ pc' = "pattern1"
  /\ lastIndex' = 0
  /\ processedRanges' = <<>>
  /\ transactions' = <<>>
  /\ UNCHANGED text
  /\ UNCHANGED web

Next == Pattern1Loop \/ Pattern2Loop \/ Pattern3Loop \/ Pattern4Loop \/ CallAgain
Spec == Init /\ [][Next]_vars
\* a step of Next as pc, lastIndex and step show it: a loop and a call that
\* has returned for the first time can take a step, and a step moves pc to a
\* loop or to the return, lastIndex within the text, and step to 0 or 1
Running ==
  /\ \/ pc \in {"pattern1", "pattern2", "pattern3", "pattern4"}
     \/ pc = "return" /\ step = 0
  /\ pc' \in {"pattern1", "pattern2", "pattern3", "pattern4", "return"}
  /\ lastIndex' \in 0..Len(text)
  /\ step' \in {0, 1}
\* parseTransactions is synchronous code of one thread: while it has a step
\* to take it takes one, and the test of a loop is taken again
SpecFair == Spec /\ WF_<<pc, lastIndex, step>>(Running)

\* ---------------------------------------------- single-best mode: the steps
InitSingle ==
  /\ text \in Messages
  /\ pc = "idle"
  /\ lastIndex = 0
  /\ processedRanges = <<>>
  /\ transactions = <<>>
  /\ step = 0
  /\ result = Pending
  /\ store = <<>>
  /\ users = <<>>
  /\ members = {}
  /\ calls = {}
  /\ response = Pending
  /\ page = Pending
  /\ fetches = {}

\* if (!text || text.trim().length === 0) return null
Guard ==
  /\ step = 0
  /\ IF \A i \in 1..Len(text) : text[i] \in Space
     THEN step' = 11 /\ result' = Null
     ELSE step' = 1 /\ result' = Pending
  /\ UNCHANGED <<text, multi>>
  /\ UNCHANGED web
\* the patterns of the cascade in the order in which they are tried, and
\* what the branch of pattern number k returns for its match m
parser_patterns ==
  <<parser_pattern1, parser_pattern2, parser_pattern3, parser_pattern4,
    parser_pattern5, parser_pattern6, parser_pattern7, parser_pattern8,
    parser_pattern9>>
parsedBy(k, t, m) ==
  CASE k = 1 -> parsed1(t, m) [] k = 2 -> parsed2(t, m) [] k = 3 -> parsed3(t, m)
    [] k = 4 -> parsed4(t, m) [] k = 5 -> parsed5(t, m) [] k = 6 -> parsed6(t, m)
    [] k = 7 -> parsed7(t, m) [] k = 8 -> parsed8(t, m) [] k = 9 -> parsed9(t, m)
\* pattern number k of the cascade: return its record when it matches
Try(k) ==
  /\ step = k
  /\ \E m \in {Match(text, parser_patterns[k])} :
        IF m.ok
        THEN step' = 11 /\ result' \in parsedBy(k, text, m)
        ELSE step' = k + 1 /\ result' = Pending
  /\ UNCHANGED <<text, multi>>
  /\ UNCHANGED web
TryPattern1 == Try(1)
TryPattern2 == Try(2)
TryPattern3 == Try(3)
TryPattern4 == Try(4)
TryPattern5 == Try(5)
TryPattern6 == Try(6)
TryPattern7 == Try(7)
TryPattern8 == Try(8)
TryPattern9 == Try(9)
\* TryFallback that returns a record of amount 0, dated now, where the text
\* lacks a date or an amount
TryFallbackDefault ==
  /\ step = 10
  /\ \E dateMatch \in {Match(text, parser_dateMatch)},
          amountMatch \in {Match(text, parser_amountMatch)} :
        IF dateMatch.ok /\ amountMatch.ok
        THEN result' \in parsed10(text, dateMatch, amountMatch)
        ELSE result' = Parsed(Now, Num(FALSE, 0, 0), "debit", Undefined, 70, 10)
  /\ step' = 11
  /\ UNCHANGED <<text, multi>>
  /\ UNCHANGED web
TryFallback ==
  /\ step = 10
  /\ \E dateMatch \in {Match(text, parser_dateMatch)},
          amountMatch \in {Match(text, parser_amountMatch)} :
        IF dateMatch.ok /\ amountMatch.ok
        THEN result' \in parsed10(text, dateMatch, amountMatch)
        ELSE result' = Null
  /\ step' = 11
  /\ UNCHANGED <<text, multi>>
  /\ UNCHANGED web

NextSingle ==
  \/ Guard
  \/ TryPattern1 \/ TryPattern2 \/ TryPattern3 \/ TryPattern4 \/ TryPattern5
  \/ TryPattern6 \/ TryPattern7 \/ TryPattern8 \/ TryPattern9 \/ TryFallback
SpecSingle == InitSingle /\ [][NextSingle]_vars

\* ----------------------------------------------------------- the categories
Category(name) == [kind |-> "category", name |-> name]
\* the table of extractCategory, in the order of its declaration
categoryKeywords ==
  <<
     [category |-> "Food & Dining",
      keywords |->
        <<
          <<"s","t","a","r","b","u","c","k","s">>, <<"c","o","f","f","e","e">>,
          <<"r","e","s","t","a","u","r","a","n","t">>, <<"c","a","f","e">>, <<"f","o","o","d">>,
          <<"p","i","z","z","a">>, <<"b","u","r","g","e","r">>, <<"d","i","n","i","n","g">>,
          <<"z","o","m","a","t","o">>, <<"s","w","i","g","g","y">>, <<"d","o","m","i","n","o">>,
          <<"m","c","d","o","n","a","l","d">> >>],
     [category |-> "Transportation",
      keywords |->
        <<
          <<"u","b","e","r">>, <<"t","a","x","i">>, <<"o","l","a">>, <<"t","r","a","v","e","l">>,
          <<"b","u","s">>, <<"t","r","a","i","n">>, <<"f","l","i","g","h","t">>,
          <<"a","i","r","p","o","r","t">>, <<"c","a","b">>, <<"r","i","d","e">>,
          <<"m","e","t","r","o">>, <<"f","u","e","l">>, <<"p","e","t","r","o","l">>,
          <<"d","i","e","s","e","l">>,
          <<"s","i","n","g","a","p","o","r","e"," ","a","i","r","l","i","n","e","s">> >>],
     [category |-> "Shopping",
      keywords |->
        <<
          <<"a","m","a","z","o","n">>, <<"f","l","i","p","k","a","r","t">>, <<"m","a","l","l">>,
          <<"r","e","t","a","i","l">>, <<"s","h","o","p">>, <<"s","t","o","r","e">>,
          <<"o","r","d","e","r">>, <<"m","y","n","t","r","a">>,
          <<"p","u","r","c","h","a","s","e">>, <<"r","e","l","i","a","n","c","e">>,
          <<"b","i","g"," ","b","a","z","a","a","r">> >>],
     [category |-> "Utilities",
      keywords |->
        <<
          <<"e","l","e","c","t","r","i","c","i","t","y">>, <<"w","a","t","e","r">>,
          <<"g","a","s">>, <<"p","h","o","n","e">>, <<"i","n","t","e","r","n","e","t">>,
          <<"b","i","l","l">>, <<"u","t","i","l","i","t","y">>, <<"m","o","b","i","l","e">>,
          <<"b","r","o","a","d","b","a","n","d">>, <<"r","e","c","h","a","r","g","e">>,
          <<"b","e","s","c","o","m">>, <<"a","i","r","t","e","l">>, <<"b","s","n","l">> >>],
     [category |-> "Entertainment",
      keywords |->
        <<
          <<"m","o","v","i","e">>, <<"c","i","n","e","m","a">>, <<"n","e","t","f","l","i","x">>,
          <<"s","p","o","t","i","f","y">>, <<"g","a","m","e">>,
          <<"e","n","t","e","r","t","a","i","n","m","e","n","t">>, <<"p","r","i","m","e">>,
          <<"h","o","t","s","t","a","r">>, <<"y","o","u","t","u","b","e">>,
          <<"b","o","o","k","m","y","s","h","o","w">> >>],
     [category |-> "Health",
      keywords |->
        <<
          <<"d","o","c","t","o","r">>, <<"h","o","s","p","i","t","a","l">>,
          <<"p","h","a","r","m","a","c","y">>, <<"m","e","d","i","c","a","l">>,
          <<"h","e","a","l","t","h">>, <<"g","y","m">>, <<"f","i","t","n","e","s","s">>,
          <<"c","l","i","n","i","c">> >>],
     [category |-> "Transfer",
      keywords |->
        <<
          <<"t","r","a","n","s","f","e","r">>, <<"u","p","i">>, <<"n","e","f","t">>,
          <<"i","m","p","s">>, <<"r","t","g","s">>, <<"p","a","y","t","m">>,
          <<"p","h","o","n","e","p","e">>, <<"g","p","a","y">>, <<"b","a","j","a","j">> >>] >>
\* the category that comes last in the table among those with a keyword in
\* the description
extractLast(description) ==
  LET lowerDesc == lower(description)
      hit == {i \in 1..Len(categoryKeywords) :
                \E k \in 1..Len(categoryKeywords[i].keywords) :
                   includes(lowerDesc, categoryKeywords[i].keywords[k])}
  IN IF hit = {} THEN Undefined
     ELSE Category(categoryKeywords[CHOOSE i \in hit : \A j \in hit : j <= i].category)
\* for (const [category, keywords] of Object.entries(categoryKeywords)):
\* the first entry with keywords.some((keyword) => lowerDesc.includes(keyword))
extractCategory(description) ==
  LET lowerDesc == lower(description)
      hit == {i \in 1..Len(categoryKeywords) :
                \E k \in 1..Len(categoryKeywords[i].keywords) :
                   includes(lowerDesc, categoryKeywords[i].keywords[k])}
  IN IF hit = {} THEN Undefined
     ELSE Category(categoryKeywords[CHOOSE i \in hit : \A j \in hit : i <= j].category)
\* the tests "if (desc.match(/a|b|.../)) return c" of categorizeTransaction in
\* their order, each with the alternatives of its regular expression
categorizeTests ==
  <<
     [category |-> "food",
      alternatives |->
        <<
          <<"s","t","a","r","b","u","c","k","s">>, <<"c","o","f","f","e","e">>,
          <<"c","a","f","e">>, <<"r","e","s","t","a","u","r","a","n","t">>,
          <<"p","i","z","z","a">>, <<"b","u","r","g","e","r">>, <<"f","o","o","d">>,
          <<"d","i","n","i","n","g">>, <<"z","o","m","a","t","o">>, <<"s","w","i","g","g","y">>,
          <<"d","o","m","i","n","o">> >>],
     [category |-> "transport",
      alternatives |->
        <<
          <<"u","b","e","r">>, <<"o","l","a">>, <<"t","a","x","i">>, <<"c","a","b">>,
          <<"r","i","d","e">>, <<"t","r","a","n","s","p","o","r","t">>, <<"b","u","s">>,
          <<"t","r","a","i","n">>, <<"m","e","t","r","o">>, <<"f","l","i","g","h","t">>,
          <<"a","i","r","p","o","r","t">>, <<"f","u","e","l">>, <<"p","e","t","r","o","l">>,
          <<"d","i","e","s","e","l">> >>],
     [category |-> "shopping",
      alternatives |->
        <<
          <<"a","m","a","z","o","n">>, <<"f","l","i","p","k","a","r","t">>,
          <<"m","y","n","t","r","a">>, <<"s","h","o","p">>, <<"s","t","o","r","e">>,
          <<"m","a","l","l">>, <<"r","e","t","a","i","l">>, <<"o","r","d","e","r">>,
          <<"p","u","r","c","h","a","s","e">> >>],
     [category |-> "entertainment",
      alternatives |->
        <<
          <<"n","e","t","f","l","i","x">>, <<"s","p","o","t","i","f","y">>,
          <<"p","r","i","m","e">>, <<"h","o","t","s","t","a","r">>, <<"m","o","v","i","e">>,
          <<"c","i","n","e","m","a">>, <<"e","n","t","e","r","t","a","i","n","m","e","n","t">>,
          <<"g","a","m","e">>, <<"y","o","u","t","u","b","e">> >>],
     [category |-> "health",
      alternatives |->
        <<
          <<"g","y","m">>, <<"h","e","a","l","t","h">>, <<"h","o","s","p","i","t","a","l">>,
          <<"d","o","c","t","o","r">>, <<"p","h","a","r","m","a","c","y">>,
          <<"m","e","d","i","c","a","l">>, <<"f","i","t","n","e","s","s">>,
          <<"c","l","i","n","i","c">> >>],
     [category |-> "utilities",
      alternatives |->
        <<
          <<"e","l","e","c","t","r","i","c">>, <<"w","a","t","e","r">>, <<"g","a","s">>,
          <<"b","i","l","l">>, <<"u","t","i","l","i","t","y">>, <<"p","h","o","n","e">>,
          <<"m","o","b","i","l","e">>, <<"i","n","t","e","r","n","e","t">>,
          <<"b","r","o","a","d","b","a","n","d">>, <<"r","e","c","h","a","r","g","e">> >>],
     [category |-> "transfer",
      alternatives |->
        <<
          <<"t","r","a","n","s","f","e","r">>, <<"u","p","i">>, <<"n","e","f","t">>,
          <<"i","m","p","s">>, <<"r","t","g","s">>, <<"p","a","y","t","m">>,
          <<"p","h","o","n","e","p","e">>, <<"g","p","a","y">> >>] >>
categorizeTransaction(description) ==
  LET desc == lower(description)
      hit == {i \in 1..Len(categorizeTests) :
                Match(desc, Alt([k \in 1..Len(categorizeTests[i].alternatives) |->
                                   Lit(categorizeTests[i].alternatives[k])])).ok}
  IN IF hit = {} THEN Category("other")
     ELSE Category(categorizeTests[CHOOSE i \in hit : \A j \in hit : i <= j].category)

\* the descriptions: up to MaxWords of these words, with a space between
MaxWords == 2
Descriptions ==
  {Join(<< <<"U","b","e","r">>, <<"f","o","o","d">>, <<"s","h","o","p">>,
           <<"g","a","s">>, <<"m","o","v","i","e">>, <<"G","Y","M">>,
           <<"u","p","i">>, <<"x">> >>, ws, <<" ">>) :
     ws \in UNION {[1..n -> 1..8] : n \in 0..MaxWords}}
\* a call of one of the two classifiers on a description: pc is the function
\* that has returned result
InitCategory ==
  /\ text \in Descriptions
  /\ pc = "call"
  /\ lastIndex = 0
  /\ processedRanges = <<>>
  /\ transactions = <<>>
  /\ step = 0
  /\ result = Pending
  /\ store = <<>>
  /\ users = <<>>
  /\ members = {}
  /\ calls = {}
  /\ response = Pending
  /\ page = Pending
  /\ fetches = {}
ExtractCategory ==
  /\ pc = "call"
  /\ pc' = "extractCategory"
  /\ result' = extractCategory(text)
  /\ UNCHANGED <<text, lastIndex, processedRanges, transactions, step>>
  /\ UNCHANGED web
CategorizeTransaction ==
  /\ pc = "call"
  /\ pc' = "categorizeTransaction"
  /\ result' = categorizeTransaction(text)
  /\ UNCHANGED <<text, lastIndex, processedRanges, transactions, step>>
  /\ UNCHANGED web
NextCategory == ExtractCategory \/ CategorizeTransaction
SpecCategory == InitCategory /\ [][NextCategory]_vars

\* ------------------------------------------------- the transaction routes
\* the Authorization headers of the requests: none, the tokens that register
\* and login sign for two users, each with the organization created for the
\* user, and a token that carries the ids of the first user without a valid
\* signature
Headers ==
  {Undefined}
    \cup {[signed |-> TRUE, userId |-> "u1", organizationId |-> "o1"],
          [signed |-> TRUE, userId |-> "u2", organizationId |-> "o2"],
          [signed |-> FALSE, userId |-> "u1", organizationId |-> "o1"]}
\* the answer of authMiddleware, or status 0 and the decoded token when it
\* calls next()
authMiddleware(authHeader) ==
  IF authHeader = Undefined
  THEN [status |-> 401, error |-> "Unauthorized"]
  ELSE IF ~authHeader.signed
  THEN [status |-> 401, error |-> "Invalid token"]
  ELSE [status |-> 0,
        auth |-> [userId |-> authHeader.userId,
                  organizationId |-> authHeader.organizationId]]

\* the number of rows a Transaction table may reach, deleted rows included
MaxStore == 2
\* findMany without its where clause
findManyOfAll(auth, take, skip, cursor) ==
  LET rows == {i \in 1..Len(store) :
                 /\ store[i].live
                 /\ \/ cursor = 0
                    \/ /\ cursor <= Len(store)
                       /\ store[cursor].live
                       /\ store[i].createdAt <= store[cursor].createdAt}
      before(i, j, asc) ==
        \/ store[i].createdAt > store[j].createdAt
        \/ /\ store[i].createdAt = store[j].createdAt
           /\ IF asc THEN i < j ELSE i > j
      ordered(asc) ==
        [k \in 1..Cardinality(rows) |->
           CHOOSE i \in rows : Cardinality({j \in rows : before(j, i, asc)}) = k - 1]
      last == IF skip + take < Cardinality(rows) THEN skip + take
              ELSE Cardinality(rows)
  IN {SubSeq(ordered(asc), skip + 1, last) : asc \in BOOLEAN}
\* prisma.transaction.findMany({ where: auth, take, skip, cursor: { id },
\* orderBy: { createdAt: "desc" } }) for take >= 0: the ids of the rows, in
\* each order the database may give to rows of equal createdAt; cursor 0 is
\* no cursor; with a cursor the rows are those not newer than the row of the
\* cursor, and none when that row does not exist
findMany(auth, take, skip, cursor) ==
  LET rows == {i \in 1..Len(store) :
                 /\ store[i].live
                 /\ store[i].userId = auth.userId
                 /\ store[i].organizationId = auth.organizationId
                 /\ \/ cursor = 0
                    \/ /\ cursor <= Len(store)
                       /\ store[cursor].live
                       /\ store[i].createdAt <= store[cursor].createdAt}
      before(i, j, asc) ==
        \/ store[i].createdAt > store[j].createdAt
        \/ /\ store[i].createdAt = store[j].createdAt
           /\ IF asc THEN i < j ELSE i > j
      ordered(asc) ==
        [k \in 1..Cardinality(rows) |->
           CHOOSE i \in rows : Cardinality({j \in rows : before(j, i, asc)}) = k - 1]
      last == IF skip + take < Cardinality(rows) THEN skip + take
              ELSE Cardinality(rows)
  IN {SubSeq(ordered(asc), skip + 1, last) : asc \in BOOLEAN}

\* the state before any request
InitTransactions ==
  /\ store = <<>>
  /\ calls = {}
  /\ response = [op |-> "none", status |-> 0]
  /\ users = <<>>
  /\ members = {}
  /\ page = Pending
  /\ fetches = {}
  /\ text = <<>>
  /\ pc = "idle"
  /\ lastIndex = 0
  /\ processedRanges = <<>>
  /\ transactions = <<>>
  /\ step = 0
  /\ result = Pending

\* POST /extract. body.blank: the text is missing or blank; body.dates: for
\* each record that parseTransactions returns for the text, whether its date
\* is a valid Date ("1/1/2025 5 dr\n2025-13-10 v , Cr" gives <<TRUE, FALSE>>).
\* The first step runs the handler up to Promise.all; a further step is the
\* end of one prisma.transaction.create, which rejects for an Invalid Date,
\* and with it the answer when Promise.all settles. A call counts the rows it
\* has stored and leaves calls with its last prisma.transaction.create.
Extract ==
  \/ /\ \E authHeader \in Headers,
           body \in {[blank |-> TRUE, dates |-> <<>>],
                     [blank |-> FALSE, dates |-> <<>>],
                     [blank |-> FALSE, dates |-> <<TRUE>>],
                     [blank |-> FALSE, dates |-> <<TRUE, TRUE>>],
                     [blank |-> FALSE, dates |-> <<TRUE, FALSE>>]} :
          LET a == authMiddleware(authHeader)
          IN IF a.status # 0
             THEN response' = [op |-> "extract", status |-> a.status] /\ UNCHANGED calls
             ELSE IF body.blank \/ Len(body.dates) = 0
             THEN response' = [op |-> "extract", status |-> 400] /\ UNCHANGED calls
             ELSE /\ Len(store) + Len(body.dates)
                       + Cardinality(UNION {{c} \X c.pending :
                                              c \in {d \in calls : d.op = "extract"}})
                         <= MaxStore
                  /\ calls' = calls \cup {[op |-> "extract", auth |-> a.auth,
                                           dates |-> body.dates,
                                           pending |-> 1..Len(body.dates),
                                           stored |-> 0, status |-> 0]}
                  /\ UNCHANGED response
     /\ UNCHANGED store
  \/ \E c \in {d \in calls : d.op = "extract"} : \E i \in c.pending :
       LET pending == c.pending \ {i}
           stored  == IF c.dates[i] THEN c.stored + 1 ELSE c.stored
           status  == IF c.status # 0 THEN c.status
                      ELSE IF ~c.dates[i] THEN 500
                      ELSE IF pending = {} THEN 201
                      ELSE 0
           times   == {store[k].createdAt : k \in 1..Len(store)}
           latest  == IF times = {} THEN 0
                      ELSE CHOOSE x \in times : \A y \in times : y <= x
       IN /\ IF c.dates[i]
             \* createdAt DEFAULT CURRENT_TIMESTAMP, TIMESTAMP(3)
             THEN \E createdAt \in {latest + 1} \cup ({latest} \ {0}) :
                    store' = Append(store, [userId |-> c.auth.userId,
                                            organizationId |-> c.auth.organizationId,
                                            createdAt |-> createdAt, live |-> TRUE])
             ELSE UNCHANGED store
          /\ calls' = (calls \ {c})
                        \cup IF pending = {} THEN {}
                             ELSE {[c EXCEPT !.pending = pending, !.stored = stored,
                                             !.status = status]}
          /\ IF status # c.status
             THEN response' = [op |-> "extract", status |-> status, auth |-> c.auth,
                               transactions |-> Len(c.dates), stored |-> stored]
             ELSE UNCHANGED response

\* GET /: cursor 0 is no cursor parameter, limitParam <<>> no limit parameter;
\* the answer notes whether no other request was under way (quiet)
List ==
  /\ \E authHeader \in Headers, cursor \in 0..Len(store),
        limitParam \in {<<>>, <<"0">>, <<"1">>, <<"6", "0">>, <<"x">>} :
       LET a == authMiddleware(authHeader)
           \* Number.parseInt(query.limit || "10")
           str == IF limitParam = <<>> THEN <<"1", "0">> ELSE limitParam
           sgn == IF str[1] \in {"-", "+"} THEN 1 ELSE 0
           digits == SubSeq(str, sgn + 1, sgn + Run(str, Digit, sgn, -1))
           parsed == IF str[1] = "-" THEN 0 - ToInt(digits) ELSE ToInt(digits)
           \* Math.min(..., 50)
           limit == IF parsed < 50 THEN parsed ELSE 50
       IN IF a.status # 0
          THEN response' = [op |-> "list", status |-> a.status]
          ELSE IF digits = <<>>
          \* take: NaN
          THEN response' = [op |-> "list", status |-> 500]
          ELSE \E rows \in findMany(a.auth, limit + 1, IF cursor # 0 THEN 1 ELSE 0, cursor) :
                 LET hasMore == Len(rows) > limit
                     \* transactions.slice(0, limit)
                     sliced == IF limit < 0 THEN SubSeq(rows, 1, Len(rows) + limit)
                               ELSE IF limit < Len(rows) THEN SubSeq(rows, 1, limit)
                               ELSE rows
                 IN response' = [op |-> "list", status |-> 200, auth |-> a.auth,
                                 cursor |-> cursor, limit |-> limit,
                                 quiet |-> calls = {},
                                 transactions |-> sliced,
                                 hasMore |-> hasMore,
                                 \* hasMore ? result[result.length - 1]?.id : null
                                 nextCursor |-> IF hasMore /\ sliced # <<>>
                                                THEN sliced[Len(sliced)] ELSE 0]
  /\ UNCHANGED <<store, calls>>

\* DELETE /:id, id 0 for an id that no row has: the handler up to the end of
\* findUnique, and for a call that waits there the end of prisma.delete; a
\* deleted row leaves a row that is not live, so that no id comes twice
Delete ==
  \/ /\ \E authHeader \in Headers, id \in 0..Len(store) :
          LET a == authMiddleware(authHeader)
          IN IF a.status # 0
             THEN response' = [op |-> "delete", status |-> a.status] /\ UNCHANGED calls
             ELSE IF id = 0 \/ ~store[id].live
             THEN response' = [op |-> "delete", status |-> 404] /\ UNCHANGED calls
             ELSE IF \/ store[id].userId # a.auth.userId
                     \/ store[id].organizationId # a.auth.organizationId
             THEN /\ response' = [op |-> "delete", status |-> 403, auth |-> a.auth,
                                  id |-> id]
                  /\ UNCHANGED calls
             ELSE /\ calls' = calls \cup {[op |-> "delete", auth |-> a.auth, id |-> id]}
                  /\ UNCHANGED response
     /\ UNCHANGED store
  \/ \E c \in {d \in calls : d.op = "delete"} :
       /\ calls' = calls \ {c}
       /\ IF store[c.id].live
          THEN /\ store' = [store EXCEPT ![c.id] = [userId |-> "", organizationId |-> "",
                                                    createdAt |-> 0, live |-> FALSE]]
               /\ response' = [op |-> "delete", status |-> 200, auth |-> c.auth,
                               id |-> c.id]
          ELSE /\ response' = [op |-> "delete", status |-> 500]
               /\ UNCHANGED store

NextTransactions ==
  /\ Extract \/ List \/ Delete
  /\ UNCHANGED <<text, multi, step, result, users, members, page, fetches>>
SpecTransactions == InitTransactions /\ [][NextTransactions]_vars

\* -------------------------------------------------------- the auth routes
\* the register requests that the server handles at a time
MaxRegisters == 2
InitAuth ==
  /\ users = <<>>
  /\ members = {}
  /\ calls = {}
  /\ response = [op |-> "none", status |-> 0]
  /\ store = <<>>
  /\ page = Pending
  /\ fetches = {}
  /\ text = <<>>
  /\ pc = "idle"
  /\ lastIndex = 0
  /\ processedRanges = <<>>
  /\ transactions = <<>>
  /\ step = 0
  /\ result = Pending

\* POST /register, email "" for a body without email or password: the handler
\* up to the end of findUnique and bcryptjs.hash, then the end of
\* prisma.user.create, which rejects when the unique index User_email_key holds
\* the email, then the end of prisma.organization.create, which stores the
\* owner membership or rejects as any database call may; the catch block
\* answers 500 for a rejection, failed names the call that rejected
Register ==
  \/ /\ \E r \in (1..MaxRegisters) \ {c.request : c \in calls}, email \in {"", "a", "b"} :
          IF email = ""
          THEN response' = [op |-> "register", status |-> 400, email |-> email,
                            error |-> "Email and password are required"]
               /\ UNCHANGED calls
          ELSE IF \E u \in 1..Len(users) : users[u].email = email
          THEN response' = [op |-> "register", status |-> 400, email |-> email,
                            error |-> "User already exists"]
               /\ UNCHANGED calls
          ELSE /\ calls' = calls \cup {[op |-> "register", request |-> r,
                                        email |-> email, userId |-> 0]}
               /\ UNCHANGED response
     /\ UNCHANGED <<users, members>>
  \/ \E c \in {d \in calls : d.userId = 0} :
       IF \E u \in 1..Len(users) : users[u].email = c.email
       THEN /\ response' = [op |-> "register", status |-> 500, email |-> c.email,
                            error |-> "Failed to register", failed |-> "user.create"]
            /\ calls' = calls \ {c}
            /\ UNCHANGED <<users, members>>
       ELSE /\ users' = Append(users, [email |-> c.email, password |-> "p"])
            /\ calls' = (calls \ {c}) \cup {[c EXCEPT !.userId = Len(users) + 1]}
            /\ UNCHANGED <<members, response>>
  \/ \E c \in {d \in calls : d.userId # 0} :
       /\ calls' = calls \ {c}
       /\ \/ /\ members' = members \cup {[userId |-> c.userId,
                                          organizationId |-> Cardinality(members) + 1,
                                          role |-> "owner"]}
             /\ response' = [op |-> "register", status |-> 201, email |-> c.email,
                             userId |-> c.userId,
                             organizationId |-> Cardinality(members) + 1]
          \/ /\ response' = [op |-> "register", status |-> 500, email |-> c.email,
                             error |-> "Failed to register",
                             failed |-> "organization.create"]
             /\ UNCHANGED members
       /\ UNCHANGED users

\* POST /login, email "" for a body without email or password
Login ==
  /\ \E email \in {"", "a", "b"}, password \in {"p", "q"} :
       LET user == {u \in 1..Len(users) : users[u].email = email}
           organizations == {m \in members : m.userId \in user}
       IN response' =
            IF email = ""
            THEN [op |-> "login", status |-> 400, email |-> email,
                  error |-> "Email and password are required"]
            ELSE IF user = {} \/ \E u \in user : users[u].password # password
            THEN [op |-> "login", status |-> 401, email |-> email,
                  error |-> "Invalid credentials"]
            ELSE IF organizations = {}
            THEN [op |-> "login", status |-> 400, email |-> email,
                  error |-> "No organization found"]
            ELSE [op |-> "login", status |-> 200, email |-> email,
                  userId |-> (CHOOSE u \in user : TRUE),
                  organizationId |-> (CHOOSE m \in organizations : TRUE).organizationId]
  /\ UNCHANGED <<users, members, calls>>

\* GET /me, with no Authorization header or with the token that register or
\* login has signed for a member: no middleware of authRoutes sets "auth"
Me ==
  /\ \E authHeader \in {Undefined}
        \cup {[signed |-> TRUE, userId |-> m.userId,
               organizationId |-> m.organizationId] : m \in members} :
       LET auth == Undefined                                   \* c.get("auth")
       IN response' =
            IF auth = Undefined
            THEN [op |-> "me", status |-> 401, authHeader |-> authHeader,
                  error |-> "Unauthorized"]
            ELSE [op |-> "me", status |-> 200, authHeader |-> authHeader,
                  user |-> auth.userId]
  /\ UNCHANGED <<users, members, calls>>

NextAuth ==
  /\ Register \/ Login \/ Me
  /\ UNCHANGED <<text, multi, step, result, store, page, fetches>>
SpecAuth == InitAuth /\ [][NextAuth]_vars

\* ------------------------------------------------------- isOverlapping alone
\* the text positions of the ranges
MaxEnd == 4
\* a call of isOverlapping(start, end) with up to two claimed ranges [s, e) in
\* processedRanges, all ranges non-empty: result is what it returns, for the
\* candidate it was called with
InitOverlap ==
  /\ processedRanges \in UNION {[1..n -> {r \in (0..MaxEnd) \X (0..MaxEnd) : r[1] < r[2]}] :
                                  n \in 0..2}
  /\ result = Pending
  /\ text = <<>>
  /\ pc = "idle"
  /\ lastIndex = 0
  /\ transactions = <<>>
  /\ step = 0
  /\ store = <<>>
  /\ users = <<>>
  /\ members = {}
  /\ calls = {}
  /\ response = Pending
  /\ page = Pending
  /\ fetches = {}
CallIsOverlapping ==
  /\ result = Pending
  /\ \E start \in 0..MaxEnd, end \in 0..MaxEnd :
       /\ start < end
       /\ result' = [kind |-> "overlapping", start |-> start, end |-> end,
                     value |-> isOverlapping(processedRanges, start, end)]
  /\ UNCHANGED <<text, multi, step, web>>
SpecOverlap == InitOverlap /\ [][CallIsOverlapping]_vars

\* ------------------------------------------------------ the dashboard page
\* the rows the user has when the page is opened, and the requests the page
\* sends
MaxRows == 12
MaxRequests == 5
\* Number.parseInt(query.limit || "10"): the page sends no limit
DefaultLimit == 10
\* the page after its first effect: page holds the state of the component,
\* fetches the requests that have not returned, each with the answer of the
\* server once the server has made it.  The user is signed in and has up to
\* MaxRows rows, no two of one createdAt; loadTransactions() has been called.
InitPage ==
  /\ \E n \in 0..MaxRows :
       store = [i \in 1..n |-> [userId |-> "u1", organizationId |-> "o1",
                                createdAt |-> i, live |-> TRUE]]
  /\ page = [transactions |-> <<>>, hasMore |-> FALSE, nextCursor |-> 0,
             fetchLoading |-> TRUE, extracting |-> FALSE, requests |-> 1]
  /\ fetches = {[request |-> 1, kind |-> "list", cursor |-> 0, answered |-> FALSE,
                 transactions |-> <<>>, hasMore |-> FALSE, nextCursor |-> 0]}
  /\ users = <<>>
  /\ members = {}
  /\ calls = {}
  /\ response = Pending
  /\ text = <<>>
  /\ pc = "idle"
  /\ lastIndex = 0
  /\ processedRanges = <<>>
  /\ transactions = <<>>
  /\ step = 0
  /\ result = Pending

\* loadTransactions(cursor) after its fetch has been sent: GET / makes its
\* answer, or the page receives the answer, or the fetch fails
loadTransactions ==
  \/ \E f \in fetches :
       /\ f.kind = "list" /\ ~f.answered
       /\ \E rows \in findMany([userId |-> "u1", organizationId |-> "o1"],
                               DefaultLimit + 1, IF f.cursor # 0 THEN 1 ELSE 0, f.cursor) :
            LET hasMore == Len(rows) > DefaultLimit
                sliced == IF hasMore THEN SubSeq(rows, 1, DefaultLimit) ELSE rows
            IN fetches' = (fetches \ {f}) \cup
                 {[f EXCEPT !.answered = TRUE, !.transactions = sliced,
                            !.hasMore = hasMore,
                            !.nextCursor = IF hasMore THEN sliced[Len(sliced)] ELSE 0]}
       /\ UNCHANGED <<store, page>>
  \/ \E f \in fetches :
       /\ f.kind = "list" /\ f.answered
       /\ fetches' = fetches \ {f}
       /\ page' = [page EXCEPT
                     !.transactions = IF f.cursor # 0 THEN page.transactions \o f.transactions
                                      ELSE f.transactions,
                     !.hasMore = f.hasMore,
                     !.nextCursor = f.nextCursor,
                     !.fetchLoading = FALSE]
       /\ UNCHANGED store
  \/ \E f \in fetches :
       /\ f.kind = "list"
       /\ fetches' = fetches \ {f}
       /\ page' = [page EXCEPT !.fetchLoading = FALSE]
       /\ UNCHANGED store

\* handleExtract with a text that is not blank, by the button that is
\* disabled while extracting: the request is sent; POST /extract stores a
\* row; the page receives the answer and calls loadTransactions(); or the
\* request fails
handleExtract ==
  \/ /\ ~page.extracting
     /\ page.requests + 2 <= MaxRequests
     /\ page' = [page EXCEPT !.extracting = TRUE, !.requests = @ + 1]
     /\ fetches' = fetches \cup
          {[request |-> page.requests + 1, kind |-> "extract", cursor |-> 0,
            answered |-> FALSE, transactions |-> <<>>, hasMore |-> FALSE,
            nextCursor |-> 0]}
     /\ UNCHANGED store
  \/ \E f \in fetches :
       /\ f.kind = "extract" /\ ~f.answered
       /\ store' = Append(store, [userId |-> "u1", organizationId |-> "o1",
                                  createdAt |-> Len(store) + 1, live |-> TRUE])
       /\ fetches' = (fetches \ {f}) \cup {[f EXCEPT !.answered = TRUE]}
       /\ UNCHANGED page
  \/ \E f \in fetches :
       /\ f.kind = "extract" /\ f.answered
       /\ page' = [page EXCEPT !.extracting = FALSE, !.fetchLoading = TRUE,
                               !.requests = @ + 1]
       /\ fetches' = (fetches \ {f}) \cup
            {[request |-> page.requests + 1, kind |-> "list", cursor |-> 0,
              answered |-> FALSE, transactions |-> <<>>, hasMore |-> FALSE,
              nextCursor |-> 0]}
       /\ UNCHANGED store
  \/ \E f \in fetches :
       /\ f.kind = "extract"
       /\ page' = [page EXCEPT !.extracting = FALSE]
       /\ fetches' = fetches \ {f}
       /\ UNCHANGED store

\* handleLoadMore, by the button that is shown when hasMore and disabled
\* while fetchLoading
handleLoadMore ==
  /\ page.hasMore
  /\ page.nextCursor # 0 /\ ~page.fetchLoading
  /\ page.requests < MaxRequests
  /\ page' = [page EXCEPT !.fetchLoading = TRUE, !.requests = @ + 1]
  /\ fetches' = fetches \cup
       {[request |-> page.requests + 1, kind |-> "list", cursor |-> page.nextCursor,
         answered |-> FALSE, transactions |-> <<>>, hasMore |-> FALSE,
         nextCursor |-> 0]}
  /\ UNCHANGED store

NextPage ==
  /\ loadTransactions \/ handleExtract \/ handleLoadMore
  /\ UNCHANGED <<text, multi, step, result, users, members, calls, response>>
SpecPage == InitPage /\ [][NextPage]_vars

\* ------------------------------------------------------------- the claims
\* the number of matches a loop "while ((match = r.exec(t)) !== null)" sees
\* from position from on
RECURSIVE Occurrences(_, _, _)
Occurrences(t, r, from) ==
  LET m == Exec(t, r, from)
  IN IF m.ok THEN 1 + Occurrences(t, r, m.end) ELSE 0

\* C1, as stated: in multi-match mode the spans [start, end) of the matches
\* behind two distinct returned records never intersect.
C1_SpansDisjoint ==
  \A i, j \in 1..Len(transactions) :
    i < j => \/ transactions[i].end <= transactions[j].start
             \/ transactions[j].end <= transactions[i].start

\* C2, as stated: the engine never throws; parseTransaction returns a record
\* or null, also for a date token that denotes no real date.
C2_NeverThrows == result # Throw

\* C3, as stated: the amount of every returned record is a number and is
\* not negative.
C3_AmountIsNumber ==
  \A i \in 1..Len(transactions) :
    /\ ~isNaN(transactions[i].amount)
    /\ ~Less(transactions[i].amount, 0, 0)

\* C4, as stated: a pattern whose shape matches but whose amount token does
\* not parse to a number counts as a non-match, and the cascade goes on to
\* the next pattern (here: pattern 4 of the cascade, then pattern 5).
C4_MalformedSkipped ==
  [][(/\ step = 4
      /\ Match(text, parser_pattern4).ok
      /\ isNaN(parseFloat(StripCommas(
            Cap(text, Match(text, parser_pattern4), 3)))))
     => step' = 5 /\ result' = Pending]_vars

\* C5, as stated: the record parseTransaction returns has a confidence at
\* least that of the record of every pattern of the cascade that matches.
C5_BestConfidence ==
  (step = 11 /\ result.kind = "record") =>
    \A k \in 1..9 :
      LET m == Match(text, parser_patterns[k])
      IN m.ok => \A o \in parsedBy(k, text, m) :
                   o.kind = "record" => o.confidence <= result.confidence

\* C6: in multi-match mode a fallback record (confidence 0.70) is never in
\* one result with a record of a higher confidence.
C6_FallbackAlone ==
  \A i, j \in 1..Len(transactions) :
    transactions[i].confidence = 70 => transactions[j].confidence <= 70
\* the call has returned a higher-priority record and has dropped a fallback
\* match that lies outside every claimed range
C6_FallbackDropped ==
  /\ pc = "return"
  /\ lastIndex > 0
  /\ Len(transactions) > 0
  /\ transactions[1].confidence > 70

\* C7, as stated: when no higher-priority pattern matches, multi-match mode
\* returns one record for each occurrence of the fallback shape.
C7_RecordPerOccurrence ==
  (pc = "return" /\ processedRanges = <<>>)
    => Len(transactions) = Occurrences(text, pattern4, 0)

\* C8: the result of multi-match mode is in order of acceptance: the
\* confidence never increases along it, the records of a higher-priority
\* pattern come first, and the records of one pattern are in increasing
\* order of the start of their matches.
C8_AcceptanceOrder ==
  \A i, j \in 1..Len(transactions) :
    i < j => /\ transactions[i].confidence >= transactions[j].confidence
             /\ transactions[i].pattern <= transactions[j].pattern
             /\ transactions[i].pattern = transactions[j].pattern
                  => transactions[i].start < transactions[j].start
\* a result with two records of one pattern and a record of another pattern
C8_MixedResult ==
  /\ pc = "return"
  /\ \E i, j \in 1..Len(transactions) :
       i < j /\ transactions[i].pattern = transactions[j].pattern
  /\ \E i, j \in 1..Len(transactions) :
       i < j /\ transactions[i].pattern < transactions[j].pattern

\* C9, as stated: for a text with no date token, or whose digits all belong
\* to its one date token, the generic fallback of parseTransaction does not
\* fire: the call returns null.
C9_LoneTokenNoResult ==
  [][(/\ step = 10
      /\ LET d == Match(text, parser_dateMatch)
         IN \/ ~d.ok
            \/ \A i \in 1..Len(text) :
                 text[i] \in Digit => (i > d.index /\ i <= d.end))
     => result' = Null]_vars

\* C10, amended: when the generic fallback of parseTransaction finds a date
\* and an amount token, it returns null exactly when the amount is not a
\* number, is below 0.1 or is above 10,000,000; the amounts 0.1 and
\* 10,000,000 themselves are accepted.
C10_FallbackBounds ==
  [][(/\ step = 10
      /\ Match(text, parser_dateMatch).ok
      /\ Match(text, parser_amountMatch).ok)
     => LET a == parseFloat(StripCommas(
                   Cap(text, Match(text, parser_amountMatch), 1)))
        IN (result' = Null) <=>
             \/ a.nan
             \/ a.neg /\ a.m > 0
             \/ 10 * a.m < Pow10(a.e)
             \/ a.m > 10000000 * Pow10(a.e)]_vars
\* the fallback has returned a record with the amount 0.1
C10_AcceptedAtBound ==
  /\ step = 11
  /\ result.kind = "record"
  /\ result.pattern = 10
  /\ result.amount = Num(FALSE, 1, 1)
\* C10, as stated: the fallback is accepted only for an amount strictly
\* between 0.1 and 10,000,000.
C10_StrictBounds ==
  [][(/\ step = 10
      /\ Match(text, parser_dateMatch).ok
      /\ Match(text, parser_amountMatch).ok
      /\ result' # Null)
     => LET a == parseFloat(StripCommas(
                   Cap(text, Match(text, parser_amountMatch), 1)))
        IN Greater(a, 1, 1) /\ Less(a, 10000000, 0)]_vars

\* C11, as stated: a record made from a text without any direction keyword
\* has the type debit (here: the generic fallback of parseTransaction).
C11_DefaultDebit ==
  [][(/\ step = 10
      /\ ~Match(text, parser_typeMatch).ok
      /\ result'.kind = "record")
     => result'.type = "debit"]_vars

\* C12, as stated: the type of a record follows the keyword matched by its
\* pattern, whatever direction words stand elsewhere in the text (here: the
\* word debited or credited that pattern 5 of the cascade matches after the
\* amount).
C12_TypeFromKeyword ==
  [][(/\ step = 5
      /\ Match(text, parser_pattern5).ok
      /\ result'.kind = "record")
     => LET m == Match(text, parser_pattern5)
            p == m.c[1][2] + Run(text, Space, m.c[1][2], -1)
            keyword == lower(SubSeq(text, p + 1, p + 7))
        IN result'.type = IF keyword = <<"d","e","b","i","t","e","d">>
                          THEN "debit" ELSE "credit"]_vars

\* C13, as stated: whichever pattern matched, a record whose text carries a
\* balance token (here: Bal and a number) has that number as its balance.
C13_BalanceAnyPattern ==
  LET b == Match(text, Cat(<<LitI(<<"B","a","l">>), Plus(Space), Grp(1, NumTok)>>))
  IN (step = 11 /\ result.kind = "record" /\ b.ok)
       => result.balance = parseFloat(StripCommas(Cap(text, b, 1)))

\* C14, as stated: the date normalizer always returns a valid instant, so
\* every record of parseTransactions carries a valid date.
C14_ValidInstant ==
  \A i \in 1..Len(transactions) : transactions[i].date.valid

\* C15, as stated: a slash date token a/b/y of a record is read as day a,
\* month b, and a 2-digit year yy as 20yy (here: the records that pattern2
\* and the fallback of parseTransactions make).
C15_DayMonthYear ==
  \A i \in 1..Len(transactions) :
    LET rec == transactions[i]
        tok == IF rec.pattern = 2
               THEN Cap(text, Exec(text, pattern2, rec.start), 3)
               ELSE IF rec.pattern = 4
               THEN Cap(text, Exec(text, pattern4, rec.start), 1)
               ELSE <<>>
        f   == Split(tok, "/")
    IN (Len(f) = 3 /\ Len(f[3]) \in {2, 4})
         => rec.date = Fields((IF Len(f[3]) = 2 THEN 2000 ELSE 0) + ToInt(f[3]),
                              ToInt(f[2]), ToInt(f[1]))

C18_FirstCategory ==
  LET d == lower(text)
      occurs(kw) == \E p \in 0..(Len(d) - Len(kw)) : \A j \in 1..Len(kw) : d[p + j] = kw[j]
      has(words) == \E k \in 1..Len(words) : occurs(words[k])
  IN /\ pc = "extractCategory"
          => \/ /\ result = Undefined
                /\ \A i \in 1..Len(categoryKeywords) : ~has(categoryKeywords[i].keywords)
             \/ \E i \in 1..Len(categoryKeywords) :
                  /\ result = Category(categoryKeywords[i].category)
                  /\ has(categoryKeywords[i].keywords)
                  /\ \A j \in 1..(i - 1) : ~has(categoryKeywords[j].keywords)
     /\ pc = "categorizeTransaction"
          => \/ /\ result = Category("other")
                /\ \A i \in 1..Len(categorizeTests) : ~has(categorizeTests[i].alternatives)
             \/ \E i \in 1..Len(categorizeTests) :
                  /\ result = Category(categorizeTests[i].category)
                  /\ has(categorizeTests[i].alternatives)
                  /\ \A j \in 1..(i - 1) : ~has(categorizeTests[j].alternatives)
\* extractCategory has returned Transportation for a description in capitals
\* that also holds "gas", a keyword of Utilities
C18_EarlierOfTwo ==
  /\ pc = "extractCategory"
  /\ result = Category("Transportation")
  /\ includes(lower(text), <<"g","a","s">>)
  /\ text # lower(text)

C21_DataIsolation ==
  [][/\ (response' # response /\ response'.op = "list" /\ response'.status = 200)
          => \A k \in 1..Len(response'.transactions) :
               LET row == store'[response'.transactions[k]]
               IN /\ row.live
                  /\ row.userId = response'.auth.userId
                  /\ row.organizationId = response'.auth.organizationId
     /\ \A i \in 1..Len(store) :
          (store[i].live /\ ~store'[i].live)
            => /\ response'.op = "delete" /\ response'.status = 200
               /\ response'.id = i
               /\ response'.auth.userId = store[i].userId
               /\ response'.auth.organizationId = store[i].organizationId
     /\ (response' # response /\ response'.op = "delete" /\ response'.status = 403)
          => store' = store
    ]_vars
\* a list request of one user has been answered with a row while the store
\* holds a live row of the other user
C21_OwnRowsOnly ==
  /\ response.op = "list"
  /\ response.status = 200
  /\ response.transactions # <<>>
  /\ \E i \in 1..Len(store) : store[i].live /\ store[i].userId # response.auth.userId

\* C22: when no register request is under way, every stored user is an owner
\* member of an organization, and no login is answered "No organization
\* found".
C22_OwnerOfOrganization ==
  ({c \in calls : c.op = "register"} = {})
    => /\ \A u \in 1..Len(users) :
            \E m \in members : m.userId = u /\ m.role = "owner"
       /\ (response.op = "login" /\ response.status = 400)
            => response.error # "No organization found"

\* C23: a page holds at most 50 records, and hasMore comes only with a
\* nextCursor that is the id of the last record of the page.
C23_PageAndCursor ==
  (response.op = "list" /\ response.status = 200)
    => /\ Len(response.transactions) <= 50
       /\ response.hasMore
            => /\ response.transactions # <<>>
               /\ response.nextCursor
                    = response.transactions[Len(response.transactions)]
\* C25: in a traversal with a fixed limit between 1 and 50 and no insert or
\* delete meanwhile, no transaction comes twice; so the page requested with
\* the nextCursor of a page shares no transaction with that page.
C25_NextPageIsNew ==
  [][(/\ response.op = "list" /\ response.status = 200
      /\ response.hasMore /\ response.limit \in 1..50
      /\ response.quiet /\ calls = {}
      /\ response' # response
      /\ response'.op = "list" /\ response'.status = 200
      /\ response'.auth = response.auth
      /\ response'.limit = response.limit
      /\ response'.cursor = response.nextCursor)
       => \A j \in 1..Len(response.transactions), k \in 1..Len(response'.transactions) :
            response.transactions[j] # response'.transactions[k]
    ]_vars
C27_OneRegistration ==
  /\ \A u, v \in 1..Len(users) : users[u].email = users[v].email => u = v
  /\ (response.op = "register" /\ response.status \notin {201, 400})
       => response.failed # "user.create"
\* C29: a request to /me with a token that the server has signed is answered
\* with the user of the token, not with 401.
C29_MeWithToken ==
  (response.op = "me" /\ response.authHeader # Undefined /\ response.authHeader.signed)
    => /\ response.status = 200
       /\ response.user = response.authHeader.userId

\* C24: isOverlapping(start, end) is true exactly when some position of the
\* text lies both in [start, end) and in a claimed range [s, e).
C24_SharesPosition ==
  result.kind = "overlapping"
    => (result.value
          <=> \E i \in 1..Len(processedRanges) : \E p \in 0..MaxEnd :
                /\ result.start <= p /\ p < result.end
                /\ processedRanges[i][1] <= p /\ p < processedRanges[i][2])

\* C28: the list the page shows never holds one transaction id twice, and at
\* most one Load More request is in flight.
C28_NoDuplicateOneLoadMore ==
  /\ \A i, j \in 1..Len(page.transactions) :
       page.transactions[i] = page.transactions[j] => i = j
  /\ Cardinality({f \in fetches : f.kind = "list" /\ f.cursor # 0}) <= 1

\* C30: parseTransactions terminates: every iteration of a scanning loop that
\* stays in its loop moves lastIndex forward, within the text, also when the
\* match is skipped as overlapping, and both calls reach their return.
C30_Terminates ==
  /\ [][pc' = pc /\ pc \in {"pattern1", "pattern2", "pattern3", "pattern4"}
         => lastIndex < lastIndex' /\ lastIndex' <= Len(text)]_vars
  /\ <>(pc = "return" /\ step = 1)
C30_Returned ==
  /\ pc = "return"
  /\ step = 1
  /\ Len(processedRanges) >= 2
====
